---- MODULE Spec2Model ----
(***************************************************************************)
(* Botkit platform adapters (Twilio SMS, Facebook Messenger, Google         *)
(* Hangouts): the webhook lifecycle of processActivity and the outbound     *)
(* path of sendActivities / updateActivity / deleteActivity.                *)
(*                                                                          *)
(* Each async function is a coroutine; an action of this model is the       *)
(* synchronous run of a coroutine from one await point to the next.  The    *)
(* bot logic handed to processActivity and the platform's REST API are the  *)
(* environment: they complete or fail nondeterministically.                 *)
(***************************************************************************)
EXTENDS Integers, Sequences, FiniteSets, TLC

\* ------------------------------------------------------------------ bounds

\* Number of adapter operations (webhooks, sends, updates, deletes) one
\* behaviour starts, one after the other.
MaxOps == 2

\* Longest list of outgoing activities handed to sendActivities.
MaxActivities == 2

\* ------------------------------------------------------- JavaScript values

\* A property read of an object: present or undefined.
Has(obj, key) == key \in DOMAIN obj

Undefined == "<undefined>"
Null == "<null>"
NoBody == "<no body>"

\* if (obj.key) for a string-valued property: undefined, null and '' are falsy.
TruthyStr(obj, key) == Has(obj, key) /\ obj[key] \notin {"", Null, Undefined}

\* obj.key for a string-valued property
Field(obj, key) == IF Has(obj, key) THEN obj[key] ELSE Undefined

\* Object.assign({}, a, b) / for (key in b) a[key] = b[key]
Assign(a, b) ==
    [k \in DOMAIN a \cup DOMAIN b |-> IF k \in DOMAIN b THEN b[k] ELSE a[k]]

Adapters == {"twilio", "facebook", "hangouts"}

ActivityTypes == [Message |-> "message", Event |-> "event", Typing |-> "typing"]

\* ------------------------------------------------------ adapter options

\* Credentials the adapters are constructed with.
TwilioNumber == "+15550000"
AuthToken == "twilio-auth-token"
AppSecret == "fb-app-secret"
HangoutsToken == "hangouts-token"

\* The URL Twilio signs: the webhook's address as the platform sees it.
PublicUrl == "https://bot.example/api/messages"
\* What a request behind a proxy reconstructs from its own headers.
ProxiedUrl == "http://10.0.0.1/api/messages"

\* options.validation_url is optional (TwilioAdapterOptions).
TwilioOptionSets ==
    { [twilio_number |-> TwilioNumber, account_sid |-> "AC-account-sid",
       auth_token |-> AuthToken],
      [twilio_number |-> TwilioNumber, account_sid |-> "AC-account-sid",
       auth_token |-> AuthToken, validation_url |-> PublicUrl] }

FacebookOptions ==
    [verify_token |-> "fb-verify-token", app_secret |-> AppSecret,
     access_token |-> "page-token",
     api_host |-> "graph.facebook.com", api_version |-> "v3.2"]

HangoutsOptions == [token |-> HangoutsToken]

\* ------------------------------------------------------------- signatures

\* Twilio's request signature: an HMAC of the URL and the POST parameters under
\* the auth token, modelled as the injective function of its three inputs.
TwilioSignature(authToken, url, params) ==
    [key |-> authToken, url |-> url, params |-> params]

\* Twilio.validateRequest(authToken, twilioHeader, url, params)
validateRequest(authToken, twilioHeader, url, params) ==
    twilioHeader = TwilioSignature(authToken, url, params)

\* crypto.createHmac('sha1', secret).update(rawBody).digest('hex'), prefixed
\* with 'sha1=': injective in the secret and in the raw body.
HubSignature(secret, rawBody) ==
    [prefix |-> "sha1=", key |-> secret, data |-> rawBody]

\* -------------------------------------------------------- inbound payloads

\* Twilio webhook bodies (parsed POST parameters).
TwilioEvents ==
    { [MessageSid |-> "SM1", From |-> "+15551234567", To |-> "+15557654321",
       Body |-> "hi"],
      [MessageSid |-> "SM2", From |-> "+15551234567", To |-> "+15557654321",
       Body |-> "look", NumMedia |-> "1"],
      [MessageSid |-> "SM3", From |-> "+15551234567", To |-> "+15557654321",
       Body |-> "plain", NumMedia |-> "0"],
      [MessageSid |-> "SM4", From |-> "+15551234567", To |-> "+15557654321",
       Body |-> "odd", NumMedia |-> "many"],
      [MessageSid |-> "SM5", From |-> "+15551234567", To |-> "+15557654321",
       NumMedia |-> "2"] }

TwilioEventOther(b) == CHOOSE b2 \in TwilioEvents : b2 # b

\* The x-twilio-signature header of a request with body b: absent, Twilio's own
\* signature, a signature under another key, or a signature of another body.
TwilioHeaders(b) ==
    { << >> } \cup
    { [x \in {"x-twilio-signature"} |-> sig] :
        sig \in { TwilioSignature(AuthToken, PublicUrl, b),
                  TwilioSignature(AuthToken, ProxiedUrl, b),
                  TwilioSignature("not-the-token", PublicUrl, b),
                  TwilioSignature(AuthToken, PublicUrl, TwilioEventOther(b)) } }

\* How a request reaches the bot: directly, behind a proxy that rewrites
\* scheme and host, or behind a proxy that also says which scheme it saw.
TwilioRoutes ==
    { [protocol |-> "https", hostname |-> "bot.example", forwarded |-> << >>],
      [protocol |-> "http", hostname |-> "10.0.0.1", forwarded |-> << >>],
      [protocol |-> "http", hostname |-> "bot.example",
       forwarded |-> [x \in {"x-forwarded-proto"} |-> "https"]] }

\* A Twilio request: express style carries req.headers, protocol, hostname and
\* originalUrl; the other style has no headers property and answers
\* req.header(name), req.isSecure() and req.url from the same facts.
TwilioRequests ==
    UNION { { [style |-> st, headers |-> Assign(h, rt.forwarded), protocol |-> rt.protocol,
               hostname |-> rt.hostname, originalUrl |-> "/api/messages", body |-> b] :
                st \in {"express", "restify"},
                h \in TwilioHeaders(b),
                rt \in TwilioRoutes } : b \in TwilioEvents }

\* Facebook messaging sub-events.
FbMsg(t, text) ==
    [timestamp |-> t, sender |-> [id |-> "user-1"], recipient |-> [id |-> "page-1"],
     message |-> [mid |-> "mid", text |-> text]]

FbPostback(t) ==
    [timestamp |-> t, sender |-> [id |-> "user-1"], recipient |-> [id |-> "page-1"],
     postback |-> [payload |-> "GET_STARTED"]]

\* A checkbox-plugin opt-in: no sender, the user is named by optin.user_ref.
FbOptin(t) ==
    [timestamp |-> t, recipient |-> [id |-> "page-1"],
     optin |-> [ref |-> "signup", user_ref |-> "user-ref-9"]]

\* An opt-in that names its sender as well.
FbOptinFrom(t) ==
    [timestamp |-> t, sender |-> [id |-> "user-1"], recipient |-> [id |-> "page-1"],
     optin |-> [ref |-> "signup", user_ref |-> "user-ref-9"]]

\* The echo of a message the page itself sent.
FbEcho(t) ==
    [timestamp |-> t, sender |-> [id |-> "page-1"], recipient |-> [id |-> "user-1"],
     message |-> [mid |-> "mid", text |-> "sent by the bot", is_echo |-> TRUE]]

\* A message that carries a sticker and no text.
FbSticker(t) ==
    [timestamp |-> t, sender |-> [id |-> "user-1"], recipient |-> [id |-> "page-1"],
     message |-> [mid |-> "mid", sticker_id |-> "369239263222822"]]

\* A delivery receipt: neither message nor postback.
FbDelivery(t) ==
    [timestamp |-> t, sender |-> [id |-> "user-1"], recipient |-> [id |-> "page-1"],
     delivery |-> [watermark |-> "1458668856253"]]

\* Raw request bodies and what bodyParser parses them to.
FacebookRawBodies ==
    {"one", "batch", "changes", "standby", "standbyOnly", "noEntry",
     "optin", "echo", "events"}

ParseBody(raw) ==
    CASE raw = "one" ->
           [object |-> "page", entry |-> << [id |-> "page-1", messaging |-> << FbMsg(1, "a") >>] >>]
      [] raw = "batch" ->
           [object |-> "page",
            entry |-> << [id |-> "page-1", messaging |-> << FbMsg(1, "a"), FbPostback(2) >>],
                         [id |-> "page-1", messaging |-> << FbMsg(3, "c") >>] >>]
      [] raw = "changes" ->
           [object |-> "page",
            entry |-> << [id |-> "page-1", changes |-> << FbMsg(1, "a") >>],
                         [id |-> "page-1", messaging |-> << >>],
                         [id |-> "page-1", messaging |-> << FbMsg(2, "b") >>] >>]
      [] raw = "standby" ->
           [object |-> "page",
            entry |-> << [id |-> "page-1", messaging |-> << FbMsg(1, "a") >>,
                          standby |-> << FbMsg(2, "b") >>] >>]
      [] raw = "standbyOnly" ->
           [object |-> "page",
            entry |-> << [id |-> "page-1", standby |-> << FbMsg(1, "a") >>] >>]
      [] raw = "noEntry" ->
           [object |-> "page"]
      [] raw = "optin" ->
           [object |-> "page",
            entry |-> << [id |-> "page-1", messaging |-> << FbOptin(1), FbOptinFrom(2) >>] >>]
      [] raw = "echo" ->
           [object |-> "page",
            entry |-> << [id |-> "page-1", messaging |-> << FbEcho(1), FbMsg(2, "b") >>] >>]
      [] raw = "events" ->
           [object |-> "page",
            entry |-> << [id |-> "page-1", messaging |-> << FbDelivery(1), FbSticker(2) >>] >>]

\* A Facebook request: the x-hub-signature header (absent, or a digest under
\* some secret of some raw body), the raw body and its parse.
FacebookHeaders(raw) ==
    { << >> } \cup
    { [x \in {"x-hub-signature"} |-> sig] :
        sig \in { HubSignature(AppSecret, raw),
                  HubSignature("not-the-secret", raw),
                  HubSignature(AppSecret, IF raw = "one" THEN "batch" ELSE "one") } }

FacebookRequests ==
    UNION { { [headers |-> h, rawBody |-> raw, body |-> ParseBody(raw)] :
                h \in FacebookHeaders(raw) } : raw \in FacebookRawBodies }

\* Hangouts Chat events.  A space is a ROOM or a DM; MESSAGE and CARD_CLICKED
\* events carry a message, ADDED_TO_SPACE may or may not.
HangoutsMessage ==
    [name |-> "spaces/S/messages/M", argumentText |-> " hello ",
     thread |-> [name |-> "spaces/S/threads/T"]]

\* A message that is nothing but the mention of the bot: no argumentText.
HangoutsBareMessage ==
    [name |-> "spaces/S/messages/N", thread |-> [name |-> "spaces/S/threads/T"]]

HangoutsEventShapes ==
    { [type |-> "MESSAGE", eventTime |-> "t1", space |-> [name |-> "spaces/S", type |-> "ROOM"],
       user |-> [name |-> "users/U"], message |-> HangoutsMessage],
      [type |-> "MESSAGE", eventTime |-> "t5", space |-> [name |-> "spaces/S", type |-> "ROOM"],
       user |-> [name |-> "users/U"], message |-> HangoutsMessage,
       threadKey |-> "thread-key-1"],
      [type |-> "MESSAGE", eventTime |-> "t6", space |-> [name |-> "spaces/S", type |-> "ROOM"],
       user |-> [name |-> "users/U"], message |-> HangoutsBareMessage],
      [type |-> "MESSAGE", eventTime |-> "t1", space |-> [name |-> "spaces/S", type |-> "DM"],
       user |-> [name |-> "users/U"], message |-> HangoutsMessage],
      [type |-> "ADDED_TO_SPACE", eventTime |-> "t2", space |-> [name |-> "spaces/S", type |-> "ROOM"],
       user |-> [name |-> "users/U"]],
      [type |-> "ADDED_TO_SPACE", eventTime |-> "t2", space |-> [name |-> "spaces/S", type |-> "DM"],
       user |-> [name |-> "users/U"], message |-> HangoutsMessage],
      [type |-> "REMOVED_FROM_SPACE", eventTime |-> "t3", space |-> [name |-> "spaces/S", type |-> "ROOM"],
       user |-> [name |-> "users/U"]],
      [type |-> "REMOVED_FROM_SPACE", eventTime |-> "t7", space |-> [name |-> "spaces/S", type |-> "DM"],
       user |-> [name |-> "users/U"]],
      [type |-> "CARD_CLICKED", eventTime |-> "t4", space |-> [name |-> "spaces/S", type |-> "ROOM"],
       user |-> [name |-> "users/U"], message |-> HangoutsMessage] }

\* The token field of the JSON body: absent, the configured one, another one.
HangoutsRequests ==
    { [body |-> ev] : ev \in HangoutsEventShapes } \cup
    { [body |-> Assign(ev, [token |-> t])] :
        ev \in HangoutsEventShapes, t \in {HangoutsToken, "not-the-token"} }

\* ------------------------------------------------------------------- state

VARIABLES
    options,     \* adapter name -> its options object
    api,         \* the Hangouts adapter's this.api: "unset" until getClient resolves
    opsDone,     \* operations started so far
    op,          \* the operation in progress or last finished
    adapter,     \* the adapter it runs on
    pc,          \* where its coroutine stands
    error,       \* what it rejected with
    req,         \* the inbound request
    res,         \* the HTTP response object of that request
    pos,         \* Facebook dispatch loop: entry index, item index, phase
    calls,       \* activities handed to the logic callback, in order
    turnState,   \* context.turnState of the current TurnContext
    trace,       \* response writes and callback starts/ends, in order
    activities,  \* the list handed to sendActivities
    a,           \* its loop index
    responses,   \* its responses array
    translation, \* the last call of an outbound translator: argument and result
    transport,   \* calls made to the platform APIs, in order
    turns,       \* webhook invocations in flight together: each one's own locals
    lookup       \* the last getAPI: page ids asked for, token returned, client made

vars == << options, api, opsDone, op, adapter, pc, error, req, res, pos, calls,
           turnState, trace, activities, a, responses, translation, transport,
           turns, lookup >>

inboundVars == << req, res, pos, calls, turnState, trace >>
outboundVars == << activities, a, responses, translation >>

FreshRes == [status |-> 0, body |-> NoBody, ended |-> FALSE, ends |-> 0]

\* res.status(code)
ResStatus(r, code) == [r EXCEPT !.status = code]
\* res.send(body)
ResSend(r, body) == [r EXCEPT !.body = body, !.ended = TRUE, !.ends = @ + 1]
\* res.end()
ResEnd(r) == [r EXCEPT !.ended = TRUE, !.ends = @ + 1]

\* turnState.get('httpStatus'); 0 stands for undefined
TurnStatus(ts) == IF Has(ts, "httpStatus") THEN ts.httpStatus ELSE 0
\* turnState.set(key, value)
TurnSet(ts, key, value) == Assign(ts, [k \in {key} |-> value])

\* The invocations of processActivity that may be in flight together.
Invocations == {"first", "second"}

\* The locals of an invocation that has not started.
IdleTurn ==
    [adapter |-> "none", pc |-> "idle", error |-> "none", req |-> << >>,
     res |-> FreshRes, calls |-> << >>, turnState |-> << >>]

\* getAPI before it has asked for anything.
NoLookup ==
    [activity |-> << >>, asked |-> << >>, token |-> Undefined, made |-> FALSE,
     client |-> << >>]

Settled == pc \in {"idle", "resolved", "rejected"}
CanStart == Settled /\ opsDone < MaxOps

Init ==
    /\ options \in { [twilio |-> o, facebook |-> FacebookOptions, hangouts |-> HangoutsOptions] :
                        o \in TwilioOptionSets }
    /\ api = "unset"
    /\ opsDone = 0
    /\ op = "none"
    /\ adapter = "none"
    /\ pc = "idle"
    /\ error = "none"
    /\ req = << >>
    /\ res = FreshRes
    /\ pos = [e |-> 1, m |-> 1, phase |-> "normal"]
    /\ calls = << >>
    /\ turnState = << >>
    /\ trace = << >>
    /\ activities = << >>
    /\ a = 1
    /\ responses = << >>
    /\ translation = << >>
    /\ transport = << >>
    /\ turns = [s \in Invocations |-> IdleTurn]
    /\ lookup = NoLookup

\* The constructor's google.auth.getClient(params).then(...) settles after the
\* constructor has returned.
GetClientResolves ==
    /\ api = "unset"
    /\ api' = "set"
    /\ UNCHANGED << turns, lookup, options, opsDone, op, adapter, pc, error, inboundVars, outboundVars, transport >>

\* A webhook arrives: processActivity(req, res, logic) is called on an adapter.
Begin(o, ad) ==
    /\ CanStart
    /\ opsDone' = opsDone + 1
    /\ op' = o
    /\ adapter' = ad

BeginRequest(ad, r) ==
    /\ Begin("processActivity", ad)
    /\ req' = r
    /\ pos' = [e |-> 1, m |-> 1, phase |-> "normal"]
    /\ UNCHANGED << turns, lookup, options, api, outboundVars, transport >>

\* ------------------------------------------------------------------ Twilio

InvalidSignatureBody == "{error: 'Invalid signature.'}"

NaN == -1

\* A test of NumMedia that takes any non-empty value for a count above zero.
AnyValueCounts(str) == 1

\* parseInt(string)
ParseInt(str) ==
    CASE str = "0" -> 0
      [] str = "1" -> 1
      [] str = "2" -> 2
      [] OTHER -> NaN

\* verifySignature: the signature header and the URL to validate against.
\* undefined.x is a TypeError: the branch taken when req has no headers
\* property reads req.headers when no validation_url is configured.
TwilioVerifyThrows(opts, r) ==
    r.style = "restify" /\ ~TruthyStr(opts, "validation_url")

\* (req.headers['x-forwarded-proto'] || req.protocol) + '://' + req.hostname
\* + req.originalUrl
ExpressUrl(r) ==
    (IF TruthyStr(r.headers, "x-forwarded-proto")
     THEN r.headers["x-forwarded-proto"] ELSE r.protocol)
    \o "://" \o r.hostname \o r.originalUrl

TwilioValidationUrl(opts, r) ==
    IF TruthyStr(opts, "validation_url") THEN opts.validation_url ELSE ExpressUrl(r)

\* A verifier that only looks for the header and never validates it.
TwilioVerifyHeaderOnly(opts, r) == Has(r.headers, "x-twilio-signature")

TwilioVerifySignature(opts, r) ==
    /\ Has(r.headers, "x-twilio-signature")
    /\ validateRequest(opts.auth_token, r.headers["x-twilio-signature"],
                       TwilioValidationUrl(opts, r), r.body)

\* A translator that hands on an excerpt of the webhook body.
TwilioActivityExcerpt(event) ==
    [id |-> event.MessageSid,
     channelId |-> "twilio-sms",
     conversation |-> [id |-> event.From],
     from |-> [id |-> event.From],
     recipient |-> [id |-> event.To],
     text |-> Field(event, "Body"),
     channelData |-> [MessageSid |-> event.MessageSid],
     type |-> ActivityTypes.Message]

\* A translator that defaults a missing Body to the empty string.
TwilioActivityDefaultText(event) ==
    [id |-> event.MessageSid,
     channelId |-> "twilio-sms",
     conversation |-> [id |-> event.From],
     from |-> [id |-> event.From],
     recipient |-> [id |-> event.To],
     text |-> IF Has(event, "Body") THEN event.Body ELSE "",
     channelData |-> IF TruthyStr(event, "NumMedia") /\ ParseInt(event.NumMedia) > 0
                     THEN Assign(event, [botkitEventType |-> "picture_message"])
                     ELSE event,
     type |-> ActivityTypes.Message]

\* A translator that takes the conversation from the bot's own number.
TwilioActivityToBot(event) ==
    [id |-> event.MessageSid,
     channelId |-> "twilio-sms",
     conversation |-> [id |-> event.To],
     from |-> [id |-> event.From],
     recipient |-> [id |-> event.To],
     text |-> Field(event, "Body"),
     channelData |-> IF TruthyStr(event, "NumMedia") /\ ParseInt(event.NumMedia) > 0
                     THEN Assign(event, [botkitEventType |-> "picture_message"])
                     ELSE event,
     type |-> ActivityTypes.Message]

\* The activity processActivity builds from a verified webhook body.
TwilioActivity(event) ==
    [id |-> event.MessageSid,
     channelId |-> "twilio-sms",
     conversation |-> [id |-> event.From],
     from |-> [id |-> event.From],
     recipient |-> [id |-> event.To],
     text |-> Field(event, "Body"),
     channelData |-> IF TruthyStr(event, "NumMedia") /\ ParseInt(event.NumMedia) > 0
                     THEN Assign(event, [botkitEventType |-> "picture_message"])
                     ELSE event,
     type |-> ActivityTypes.Message]

\* processActivity up to its first await: the body of verifySignature.
TwilioProcessActivity(r) ==
    /\ BeginRequest("twilio", r)
    /\ calls' = << >>
    /\ turnState' = << >>
    /\ IF TwilioVerifyThrows(options.twilio, r)
       THEN /\ pc' = "rejected"
            /\ error' = "TypeError"
            /\ res' = FreshRes
            /\ trace' = << >>
       ELSE IF TwilioVerifySignature(options.twilio, r)
       THEN /\ pc' = "verified"
            /\ error' = "none"
            /\ res' = FreshRes
            /\ trace' = << >>
       ELSE /\ pc' = "resolved"
            /\ error' = "none"
            /\ res' = ResSend(ResStatus(FreshRes, 400), InvalidSignatureBody)
            /\ trace' = << "status", "send" >>

\* processActivity after verifySignature returned true: build the activity and
\* the TurnContext, set httpStatus 200 and run the logic.
TwilioTranslate ==
    /\ adapter = "twilio" /\ op = "processActivity" /\ pc = "verified"
    /\ calls' = Append(calls, TwilioActivity(req.body))
    /\ turnState' = TurnSet(<< >>, "httpStatus", 200)
    /\ trace' = Append(trace, "call")
    /\ pc' = "callback"
    /\ UNCHANGED << turns, lookup, options, api, opsDone, op, adapter, error, req, res, pos,
                    outboundVars, transport >>

\* A response that ignores turn state.
TwilioWriteFixedResponse(r, ts) == ResEnd(ResStatus(r, 200))

\* The response written from per-turn state once the logic has completed:
\* res.status(httpStatus), then res.send(httpBody) when httpBody is truthy and
\* res.end() otherwise.
TwilioWriteResponse(r, ts) ==
    IF TruthyStr(ts, "httpBody")
    THEN ResSend(ResStatus(r, TurnStatus(ts)), ts.httpBody)
    ELSE ResEnd(ResStatus(r, TurnStatus(ts)))

\* The same writes as they appear in the trace.
WriteTrace(ts) ==
    IF TruthyStr(ts, "httpBody") THEN << "status", "send" >> ELSE << "status", "end" >>

TwilioRespond ==
    /\ adapter = "twilio" /\ op = "processActivity" /\ pc = "returned"
    /\ res' = TwilioWriteResponse(res, turnState)
    /\ trace' = trace \o WriteTrace(turnState)
    /\ pc' = "resolved"
    /\ UNCHANGED << turns, lookup, options, api, opsDone, op, adapter, error, req, pos, calls,
                    turnState, outboundVars, transport >>

\* What a rejection of runMiddleware(context, logic) does to processActivity:
\* .catch((err) => { throw err; }) rethrows, the coroutine rejects.
TwilioOnLogicError == [pc |-> "rejected", error |-> "CallbackError"]

TwilioLogicError ==
    /\ adapter = "twilio" /\ op = "processActivity" /\ pc = "threw"
    /\ pc' = TwilioOnLogicError.pc
    /\ error' = TwilioOnLogicError.error
    /\ UNCHANGED << turns, lookup, options, api, opsDone, op, adapter, inboundVars, outboundVars, transport >>

\* ------------------------------------------------------- the logic callback

\* Status codes and bodies the bot logic may leave in turn state.
CallbackStatuses == {202, 500}
CallbackBodies == {"", "reply-body"}

InCallback == op = "processActivity" /\ pc = "callback"

\* bot.httpStatus(code): context.turnState.set('httpStatus', code)
CallbackSetStatus(code) ==
    /\ InCallback
    /\ turnState' = TurnSet(turnState, "httpStatus", code)
    /\ UNCHANGED << turns, lookup, options, api, opsDone, op, adapter, pc, error, req, res, pos,
                    calls, trace, outboundVars, transport >>

\* bot.httpBody(body): context.turnState.set('httpBody', body)
CallbackSetBody(body) ==
    /\ InCallback
    /\ turnState' = TurnSet(turnState, "httpBody", body)
    /\ UNCHANGED << turns, lookup, options, api, opsDone, op, adapter, pc, error, req, res, pos,
                    calls, trace, outboundVars, transport >>

CallbackReturns ==
    /\ InCallback
    /\ pc' = "returned"
    /\ trace' = Append(trace, "return")
    /\ UNCHANGED << turns, lookup, options, api, opsDone, op, adapter, error, req, res, pos,
                    calls, turnState, outboundVars, transport >>

CallbackThrows ==
    /\ InCallback
    /\ pc' = "threw"
    /\ trace' = Append(trace, "throw")
    /\ UNCHANGED << turns, lookup, options, api, opsDone, op, adapter, error, req, res, pos,
                    calls, turnState, outboundVars, transport >>

\* ---------------------------------------------------------------- Facebook

\* A verifier that checks the key of the digest and not what was signed.
FacebookVerifyKeyOnly(opts, r) ==
    /\ Has(r.headers, "x-hub-signature")
    /\ r.headers["x-hub-signature"].key = opts.app_secret

\* verifySignature: expected === calculated
FacebookVerifySignature(opts, r) ==
    /\ Has(r.headers, "x-hub-signature")
    /\ r.headers["x-hub-signature"] = HubSignature(opts.app_secret, r.rawBody)

\* processActivity up to its first await: verifySignature sets 401 and throws
\* on a mismatch.
FacebookProcessActivity(r) ==
    /\ BeginRequest("facebook", r)
    /\ calls' = << >>
    /\ turnState' = << >>
    /\ trace' = IF FacebookVerifySignature(options.facebook, r) THEN << >> ELSE << "status" >>
    /\ res' = IF FacebookVerifySignature(options.facebook, r)
              THEN FreshRes ELSE ResStatus(FreshRes, 401)
    /\ pc' = IF FacebookVerifySignature(options.facebook, r) THEN "verified" ELSE "rejected"
    /\ error' = IF FacebookVerifySignature(options.facebook, r)
                THEN "none" ELSE "InvalidSignature"

\* A backfill that forgets to look whether the sender is there.
FacebookBackfillAlways(message) ==
    IF Has(message, "optin") /\ TruthyStr(message.optin, "user_ref")
    THEN Assign(message, [sender |-> [id |-> message.optin.user_ref]])
    ELSE message

\* processSingleMessage: the sender is taken from optin.user_ref when absent.
FacebookBackfill(message) ==
    IF ~Has(message, "sender") /\ Has(message, "optin") /\ TruthyStr(message.optin, "user_ref")
    THEN Assign(message, [sender |-> [id |-> message.optin.user_ref]])
    ELSE message

\* message.sender.id and message.recipient.id are read unconditionally.
FacebookMessageThrows(message) ==
    \/ ~Has(FacebookBackfill(message), "sender")
    \/ ~Has(message, "recipient")

\* A translator without the is_echo test.
FacebookNeverEcho(msg) == FALSE

FacebookIsEcho(msg) ==
    Has(msg, "message") /\ Has(msg.message, "is_echo") /\ msg.message.is_echo = TRUE

FacebookActivity(message) ==
    LET msg == FacebookBackfill(message) IN
    [channelId |-> "facebook",
     conversation |-> [id |-> msg.sender.id],
     from |-> [id |-> msg.sender.id, name |-> msg.sender.id],
     recipient |-> [id |-> msg.recipient.id, name |-> msg.recipient.id],
     channelData |-> IF Has(msg, "message") THEN Assign(msg, msg.message) ELSE msg,
     type |-> IF Has(msg, "message")
              THEN (IF FacebookIsEcho(msg) THEN ActivityTypes.Event ELSE ActivityTypes.Message)
              ELSE IF Has(msg, "postback") THEN ActivityTypes.Message
              ELSE ActivityTypes.Event,
     text |-> IF Has(msg, "message")
              THEN (IF Has(msg.message, "text") THEN msg.message.text ELSE Undefined)
              ELSE IF Has(msg, "postback") THEN msg.postback.payload
              ELSE Null]

\* FacebookEventTypeMiddleware.onTurn: the first of these properties that
\* channelData has names the Botkit event type; null when it has none.
FacebookEventType(channelData) ==
    IF Has(channelData, "postback") THEN "facebook_postback"
    ELSE IF Has(channelData, "referral") THEN "facebook_referral"
    ELSE IF Has(channelData, "optin") THEN "facebook_optin"
    ELSE IF Has(channelData, "delivery") THEN "message_delivered"
    ELSE IF Has(channelData, "read") THEN "message_read"
    ELSE IF Has(channelData, "account_linking") THEN "facebook_account_linking"
    ELSE IF /\ Has(channelData, "message") /\ Has(channelData.message, "is_echo")
            /\ channelData.message.is_echo = TRUE
    THEN "message_echo"
    ELSE IF Has(channelData, "app_roles") THEN "facebook_app_roles"
    ELSE IF Has(channelData, "standby") THEN "standby"
    ELSE IF Has(channelData, "pass_thread_control") THEN "facebook_receive_thread_control"
    ELSE IF Has(channelData, "take_thread_control") THEN "facebook_lose_thread_control"
    ELSE IF Has(channelData, "request_thread_control") THEN "facebook_request_thread_control"
    ELSE Null

\* The activity the logic sees when the middleware is installed.
onTurn(activity) ==
    IF ~Has(activity, "channelData") THEN activity
    ELSE [activity EXCEPT
            !.type = IF FacebookEventType(activity.channelData) = "message_echo"
                     THEN ActivityTypes.Event ELSE @,
            !.channelData =
                Assign(@, [botkitEventType |-> FacebookEventType(activity.channelData)])]

\* The dispatch loop of processActivity from position (e, m, phase) to its next
\* await, throw or end.  payload is entry.changes, else entry.messaging, else
\* null; in the standby phase it is entry.standyby.  payload.length of null or
\* undefined is a TypeError.
RECURSIVE FacebookAdvance(_, _, _, _)
FacebookAdvance(entry, e, m, phase) ==
    IF e > Len(entry) THEN [kind |-> "respond"]
    ELSE IF phase = "normal"
    THEN IF ~(Has(entry[e], "changes") \/ Has(entry[e], "messaging"))
         THEN [kind |-> "throw"]
         ELSE LET payload == IF Has(entry[e], "changes")
                             THEN entry[e].changes ELSE entry[e].messaging IN
              IF m <= Len(payload)
              THEN [kind |-> "dispatch", message |-> payload[m],
                    pos |-> [e |-> e, m |-> m, phase |-> phase]]
              ELSE IF Has(entry[e], "standby")
              THEN FacebookAdvance(entry, e, 1, "standby")
              ELSE FacebookAdvance(entry, e + 1, 1, "normal")
    ELSE IF ~Has(entry[e], "standyby")
         THEN [kind |-> "throw"]
         ELSE IF m <= Len(entry[e].standyby)
         THEN [kind |-> "dispatch",
               message |-> Assign(entry[e].standyby[m], [standby |-> TRUE]),
               pos |-> [e |-> e, m |-> m, phase |-> phase]]
         ELSE FacebookAdvance(entry, e + 1, 1, "normal")

\* Where the loop resumes: at its start after verification, after the item
\* just dispatched once its logic has completed.
FacebookNext ==
    IF pc = "verified"
    THEN FacebookAdvance(req.body.entry, 1, 1, "normal")
    ELSE FacebookAdvance(req.body.entry, pos.e, pos.m + 1, pos.phase)

FacebookResumes ==
    /\ adapter = "facebook" /\ op = "processActivity"
    /\ pc \in {"verified", "returned"}

\* if (event.entry) is false: nothing is dispatched and nothing is written.
FacebookNoEntry ==
    /\ FacebookResumes /\ ~Has(req.body, "entry")
    /\ pc' = "resolved"
    /\ UNCHANGED << turns, lookup, options, api, opsDone, op, adapter, error, inboundVars,
                    outboundVars, transport >>

\* processSingleMessage(payload[m], logic): a new TurnContext, then the logic.
FacebookDispatch ==
    /\ FacebookResumes /\ Has(req.body, "entry")
    /\ FacebookNext.kind = "dispatch"
    /\ ~FacebookMessageThrows(FacebookNext.message)
    /\ calls' = Append(calls, FacebookActivity(FacebookNext.message))
    /\ pos' = FacebookNext.pos
    /\ turnState' = << >>
    /\ trace' = Append(trace, "call")
    /\ pc' = "callback"
    /\ UNCHANGED << turns, lookup, options, api, opsDone, op, adapter, error, req, res,
                    outboundVars, transport >>

\* A TypeError in the loop or in processSingleMessage rejects processActivity.
FacebookTypeError ==
    /\ FacebookResumes /\ Has(req.body, "entry")
    /\ \/ FacebookNext.kind = "throw"
       \/ FacebookNext.kind = "dispatch" /\ FacebookMessageThrows(FacebookNext.message)
    /\ pc' = "rejected"
    /\ error' = "TypeError"
    /\ UNCHANGED << turns, lookup, options, api, opsDone, op, adapter, inboundVars, outboundVars, transport >>

\* After the last entry: res.status(200); res.end()
FacebookRespond ==
    /\ FacebookResumes /\ Has(req.body, "entry")
    /\ FacebookNext.kind = "respond"
    /\ res' = ResEnd(ResStatus(res, 200))
    /\ trace' = trace \o << "status", "end" >>
    /\ pc' = "resolved"
    /\ UNCHANGED << turns, lookup, options, api, opsDone, op, adapter, error, req, pos, calls,
                    turnState, outboundVars, transport >>

\* A dispatch loop that logs the callback's error and goes on.
FacebookSwallowsLogicError == [pc |-> "returned", error |-> "none"]

\* processSingleMessage rethrows a rejection of runMiddleware; the loop has no
\* try/catch, so processActivity rejects.
FacebookOnLogicError == [pc |-> "rejected", error |-> "CallbackError"]

FacebookLogicError ==
    /\ adapter = "facebook" /\ op = "processActivity" /\ pc = "threw"
    /\ pc' = FacebookOnLogicError.pc
    /\ error' = FacebookOnLogicError.error
    /\ UNCHANGED << turns, lookup, options, api, opsDone, op, adapter, inboundVars, outboundVars, transport >>

\* ---------------------------------------------------------------- Hangouts

\* String.prototype.trim
Trim(str) ==
    CASE str = " hello " -> "hello"
      [] str = "  " -> ""
      [] OTHER -> str

\* String.prototype.toLowerCase
ToLowerCase(str) ==
    CASE str = "CARD_CLICKED" -> "card_clicked"
      [] str = "MESSAGE" -> "message"
      [] str = "ADDED_TO_SPACE" -> "added_to_space"
      [] str = "REMOVED_FROM_SPACE" -> "removed_from_space"
      [] OTHER -> str

\* this.options.token && this.options.token !== event.token
HangoutsTokenRejected(opts, event) ==
    /\ TruthyStr(opts, "token")
    /\ ~(Has(event, "token") /\ event.token = opts.token)

\* A classifier that lets the direct-message tag win over the structural ones.
HangoutsEventTypeDmFirst(event) ==
    IF event.space.type = "DM" THEN "direct_message"
    ELSE IF event.type = "CARD_CLICKED" THEN ToLowerCase(event.type)
    ELSE IF event.type = "REMOVED_FROM_SPACE" THEN "bot_room_leave"
    ELSE IF event.type = "ADDED_TO_SPACE" THEN "bot_room_join"
    ELSE Undefined

\* channelData.botkitEventType after the four if statements, in their order.
HangoutsEventType(event) ==
    IF event.type = "CARD_CLICKED" THEN ToLowerCase(event.type)
    ELSE IF event.type = "REMOVED_FROM_SPACE"
    THEN (IF event.space.type = "ROOM" THEN "bot_room_leave" ELSE "bot_dm_leave")
    ELSE IF event.type = "ADDED_TO_SPACE"
    THEN (IF event.space.type = "ROOM" THEN "bot_room_join" ELSE "bot_dm_join")
    ELSE IF event.space.type = "DM" THEN "direct_message"
    ELSE Undefined

HangoutsActivity(event) ==
    [id |-> IF Has(event, "message") THEN event.message.name ELSE event.eventTime,
     channelId |-> "googlehangouts",
     conversation |->
        [id |-> event.space.name,
         thread |-> IF Has(event, "message") /\ ~TruthyStr(event, "threadKey")
                    THEN event.message.thread.name ELSE Null,
         threadKey |-> IF TruthyStr(event, "threadKey") THEN event.threadKey ELSE Null],
     from |-> [id |-> event.user.name, name |-> event.user.name],
     channelData |-> IF HangoutsEventType(event) = Undefined THEN event
                     ELSE Assign(event, [botkitEventType |-> HangoutsEventType(event)]),
     text |-> IF Has(event, "message")
              THEN (IF TruthyStr(event.message, "argumentText")
                    THEN Trim(event.message.argumentText) ELSE "")
              ELSE "",
     type |-> IF event.type \in {"ADDED_TO_SPACE", "REMOVED_FROM_SPACE", "CARD_CLICKED"}
              THEN ActivityTypes.Event
              ELSE IF Has(event, "message") THEN ActivityTypes.Message
              ELSE ActivityTypes.Event]

\* An adapter that acknowledges a card click at once like any other event.
HangoutsAlwaysRespondsFirst(event) == TRUE

\* Whether the 200 is written before the logic runs.
HangoutsRespondsFirst(event) == event.type # "CARD_CLICKED"

\* processActivity up to its await of runMiddleware.  A rejected token sets
\* status 401 and returns; an accepted event is translated, answered at once
\* unless it is a card click, and handed to the logic.
HangoutsProcessActivity(r) ==
    /\ BeginRequest("hangouts", r)
    /\ error' = "none"
    /\ IF HangoutsTokenRejected(options.hangouts, r.body)
       THEN /\ res' = ResStatus(FreshRes, 401)
            /\ trace' = << "status" >>
            /\ turnState' = << >>
            /\ calls' = << >>
            /\ pc' = "resolved"
       ELSE /\ calls' = << HangoutsActivity(r.body) >>
            /\ res' = IF HangoutsRespondsFirst(r.body)
                      THEN ResEnd(ResStatus(FreshRes, 200)) ELSE FreshRes
            /\ turnState' = IF HangoutsRespondsFirst(r.body)
                            THEN << >> ELSE TurnSet(<< >>, "httpStatus", 200)
            /\ trace' = IF HangoutsRespondsFirst(r.body)
                        THEN << "status", "end", "call" >> ELSE << "call" >>
            /\ pc' = "callback"

\* After the logic: a card click is answered from turn state.
HangoutsWriteResponse(r, ts) ==
    IF TruthyStr(ts, "httpBody")
    THEN ResSend(ResStatus(r, TurnStatus(ts)), ts.httpBody)
    ELSE ResEnd(ResStatus(r, TurnStatus(ts)))

HangoutsRespond ==
    /\ adapter = "hangouts" /\ op = "processActivity" /\ pc = "returned"
    /\ res' = IF req.body.type = "CARD_CLICKED"
              THEN HangoutsWriteResponse(res, turnState) ELSE res
    /\ trace' = IF req.body.type = "CARD_CLICKED"
                THEN trace \o WriteTrace(turnState) ELSE trace
    /\ pc' = "resolved"
    /\ UNCHANGED << turns, lookup, options, api, opsDone, op, adapter, error, req, pos, calls,
                    turnState, outboundVars, transport >>

HangoutsOnLogicError == [pc |-> "rejected", error |-> "CallbackError"]

HangoutsLogicError ==
    /\ adapter = "hangouts" /\ op = "processActivity" /\ pc = "threw"
    /\ pc' = HangoutsOnLogicError.pc
    /\ error' = HangoutsOnLogicError.error
    /\ UNCHANGED << turns, lookup, options, api, opsDone, op, adapter, inboundVars, outboundVars, transport >>

\* HangoutsBotWorker.replyWithNew / replyWithUpdate, called by the logic with
\* the incoming message as src: src.type is the activity's botkitEventType when
\* it has one.  Only a card_clicked message gets an httpBody.
BotkitMessageType(activity) ==
    IF Has(activity.channelData, "botkitEventType")
    THEN activity.channelData.botkitEventType ELSE activity.type

ReplyBody(kind, src) ==
    IF BotkitMessageType(src) = "card_clicked"
    THEN [set |-> TRUE, body |-> kind] ELSE [set |-> FALSE, body |-> ""]

ReplyWith(kind) ==
    /\ InCallback /\ adapter = "hangouts"
    /\ turnState' = IF ReplyBody(kind, calls[Len(calls)]).set
                    THEN TurnSet(turnState, "httpBody", ReplyBody(kind, calls[Len(calls)]).body)
                    ELSE turnState
    /\ UNCHANGED << turns, lookup, options, api, opsDone, op, adapter, pc, error, req, res, pos,
                    calls, trace, outboundVars, transport >>

replyWithNew == ReplyWith("NEW_MESSAGE")
replyWithUpdate == ReplyWith("UPDATE_MESSAGE")

\* ---------------------------------------------------------------- outbound

\* Outgoing activities: a Message and a non-Message one.
OutMessage == [type |-> ActivityTypes.Message, text |-> "hello",
               conversation |-> [id |-> "+15551234567"]]
OutTyping == [type |-> ActivityTypes.Typing, conversation |-> [id |-> "+15551234567"]]

OutActivities == {OutMessage, OutTyping}

RECURSIVE SeqsUpTo(_, _)
SeqsUpTo(S, n) ==
    IF n = 0 THEN { << >> }
    ELSE SeqsUpTo(S, n - 1) \cup
         { Append(sq, x) : sq \in { t \in SeqsUpTo(S, n - 1) : Len(t) = n - 1 }, x \in S }

ActivityLists == SeqsUpTo(OutActivities, MaxActivities)

\* A translator with sender and recipient the wrong way round.
activityToTwilioSwapped(opts, activity) ==
    [body |-> Field(activity, "text"),
     from |-> activity.conversation.id,
     to |-> opts.twilio_number,
     mediaUrl |-> Undefined]

activityToTwilio(opts, activity) ==
    [body |-> Field(activity, "text"),
     from |-> opts.twilio_number,
     to |-> activity.conversation.id,
     mediaUrl |-> IF Has(activity, "channelData") /\ TruthyStr(activity.channelData, "mediaUrl")
                  THEN activity.channelData.mediaUrl ELSE Undefined]

\* A translator that takes nothing from channelData.
ChannelFieldIgnored(activity, key, default) == default

\* channelData[key] when channelData is there and the value is truthy.
ChannelField(activity, key, default) ==
    IF Has(activity, "channelData") /\ TruthyStr(activity.channelData, key)
    THEN activity.channelData[key] ELSE default

\* channelData[key] for a key whose value is an object or an array, which is
\* truthy whenever it is there.
ChannelObject(activity, key, default) ==
    IF Has(activity, "channelData") /\ Has(activity.channelData, key)
    THEN activity.channelData[key] ELSE default

\* A map callback that tags every quick reply as text.
QuickReplyAlwaysText(item) ==
    Assign(Assign(<< >>, item), [content_type |-> "text"])

\* The callback of quick_replies.map: a copy of the item, tagged as text when
\* the item has no content_type.
QuickReply(item) ==
    LET quick_reply == Assign(<< >>, item) IN
    IF ~TruthyStr(item, "content_type")
    THEN Assign(quick_reply, [content_type |-> "text"])
    ELSE quick_reply

\* The argument of activityToFacebook when it returns: every write of the
\* function goes to the new message or to the copy of a quick reply.
activityAfterToFacebook(activity) == activity

activityToFacebook(activity) ==
    [recipient |-> [id |-> activity.conversation.id],
     message |-> [text |-> Field(activity, "text"),
                  sticker_id |-> ChannelField(activity, "sticker_id", Undefined),
                  attachment |-> ChannelObject(activity, "attachment", Undefined),
                  quick_replies |->
                     IF Has(activity, "channelData") /\ Has(activity.channelData, "quick_replies")
                     THEN [i \in DOMAIN activity.channelData.quick_replies |->
                             QuickReply(activity.channelData.quick_replies[i])]
                     ELSE Undefined],
     messaging_type |-> ChannelField(activity, "messaging_type", "RESPONSE"),
     tag |-> ChannelField(activity, "tag", Undefined),
     notification_type |-> ChannelField(activity, "notification_type", Undefined),
     persona_id |-> ChannelField(activity, "persona_id", Undefined),
     sender_action |-> ChannelField(activity, "sender_action", Undefined)]

\* A translator that addresses the thread instead of the space.
activityToHangoutsThreadAsParent(activity) ==
    [parent |-> IF TruthyStr(activity.conversation, "thread")
                THEN activity.conversation.thread ELSE activity.conversation.id,
     threadKey |-> IF TruthyStr(activity.conversation, "threadKey")
                   THEN activity.conversation.threadKey ELSE Null,
     requestBody |->
        Assign([text |-> Field(activity, "text"), thread |-> Null],
               IF Has(activity, "channelData") THEN activity.channelData ELSE << >>)]

\* A translator that loses the thread key.
activityToHangoutsNoThreadKey(activity) ==
    [parent |-> activity.conversation.id,
     threadKey |-> Null,
     requestBody |->
        Assign([text |-> Field(activity, "text"),
                thread |-> IF TruthyStr(activity.conversation, "thread")
                           THEN [name |-> activity.conversation.thread] ELSE Null],
               IF Has(activity, "channelData") THEN activity.channelData ELSE << >>)]

activityToHangouts(activity) ==
    [parent |-> activity.conversation.id,
     threadKey |-> IF TruthyStr(activity.conversation, "threadKey")
                   THEN activity.conversation.threadKey ELSE Null,
     requestBody |->
        Assign([text |-> Field(activity, "text"),
                thread |-> IF TruthyStr(activity.conversation, "thread")
                           THEN [name |-> activity.conversation.thread] ELSE Null],
               IF Has(activity, "channelData") THEN activity.channelData ELSE << >>)]

\* A loop that sends whatever it is given, Message or not.
TwilioNextCallAnyType(acts, i) == IF i > Len(acts) THEN 0 ELSE i

\* The loop of sendActivities from index i to its next transport call: the
\* index of the activity the call is made for, or 0 when the loop ends first.
\* Twilio: only a Message activity reaches this.api.messages.create.
RECURSIVE TwilioNextCall(_, _)
TwilioNextCall(acts, i) ==
    IF i > Len(acts) THEN 0
    ELSE IF acts[i].type = ActivityTypes.Message THEN i
    ELSE TwilioNextCall(acts, i + 1)

\* Facebook: only a Message activity reaches api.callAPI('/me/messages').
RECURSIVE FacebookNextCall(_, _)
FacebookNextCall(acts, i) ==
    IF i > Len(acts) THEN 0
    ELSE IF acts[i].type = ActivityTypes.Message THEN i
    ELSE FacebookNextCall(acts, i + 1)

\* Hangouts: this.api.spaces.messages.create sits in a try block; with this.api
\* still undefined the TypeError is caught and logged and the loop goes on.
RECURSIVE HangoutsNextCall(_, _, _)
HangoutsNextCall(acts, i, client) ==
    IF i > Len(acts) THEN 0
    ELSE IF acts[i].type = ActivityTypes.Message /\ client = "set" THEN i
    ELSE HangoutsNextCall(acts, i + 1, client)

NextCall(ad, acts, i) ==
    CASE ad = "twilio" -> TwilioNextCall(acts, i)
      [] ad = "facebook" -> FacebookNextCall(acts, i)
      [] ad = "hangouts" -> HangoutsNextCall(acts, i, api)

Translate(ad, activity) ==
    CASE ad = "twilio" -> activityToTwilio(options.twilio, activity)
      [] ad = "facebook" -> activityToFacebook(activity)
      [] ad = "hangouts" -> activityToHangouts(activity)

\* The translator's argument when the translator returns.
ArgumentAfter(ad, activity) ==
    IF ad = "facebook" THEN activityAfterToFacebook(activity) ELSE activity

CreateCall(ad, activity) ==
    [adapter |-> ad, call |-> "create", message |-> Translate(ad, activity)]

\* Run the loop of adapter ad from index i: make the next call and await it,
\* or return the responses.
SendFrom(ad, acts, i) ==
    IF NextCall(ad, acts, i) = 0
    THEN /\ pc' = "resolved"
         /\ a' = Len(acts) + 1
         /\ translation' = translation
         /\ transport' = transport
    ELSE /\ pc' = "awaitApi"
         /\ a' = NextCall(ad, acts, i)
         /\ translation' = [activity |-> acts[NextCall(ad, acts, i)],
                            message |-> Translate(ad, acts[NextCall(ad, acts, i)])]
         /\ transport' = Append(transport, CreateCall(ad, acts[NextCall(ad, acts, i)]))

\* sendActivities(context, activities) up to its first await.
SendActivities(ad, acts) ==
    /\ Begin("sendActivities", ad)
    /\ activities' = acts
    /\ responses' = << >>
    /\ error' = "none"
    /\ SendFrom(ad, acts, 1)
    /\ UNCHANGED << turns, lookup, options, api, inboundVars >>

Sending == op = "sendActivities" /\ pc = "awaitApi"

\* The platform accepted the message: its id is pushed and the loop goes on.
SendApiResolves ==
    /\ Sending
    /\ responses' = Append(responses, [id |-> Len(transport)])
    /\ SendFrom(adapter, activities, a + 1)
    /\ UNCHANGED << turns, lookup, options, api, opsDone, op, adapter, error, activities, inboundVars >>

\* Every adapter wrapping its call in try/catch.
SendFailureAlwaysCaught(ad) == TRUE

\* What a failed platform call does to sendActivities: Twilio awaits
\* messages.create outside any try block, so the coroutine rejects; Facebook
\* and Hangouts catch the error, log it with console.error and go on.
SendFailureIsCaught(ad) == ad \in {"facebook", "hangouts"}

SendApiRejects ==
    /\ Sending
    /\ IF SendFailureIsCaught(adapter)
       THEN /\ SendFrom(adapter, activities, a + 1)
            /\ error' = error
       ELSE /\ pc' = "rejected"
            /\ error' = "TransportError"
            /\ UNCHANGED << a, translation, transport >>
    /\ UNCHANGED << turns, lookup, options, api, opsDone, op, adapter, activities, responses, inboundVars >>

\* Every adapter calling the platform the way Hangouts does.
ModifyOutcomeEverywhere(ad, hasId, client) ==
    IF ~hasId THEN "rejected"
    ELSE IF client = "unset" THEN "rejected"
    ELSE "awaitApi"

\* updateActivity / deleteActivity.  Twilio and Facebook only log.  Hangouts
\* calls spaces.messages.update / delete when the argument names a message,
\* and throws otherwise; any error of the call is logged and rethrown.
ModifyOutcome(ad, hasId, client) ==
    IF ad \in {"twilio", "facebook"} THEN "resolved"
    ELSE IF ~hasId THEN "rejected"
    ELSE IF client = "unset" THEN "rejected"
    ELSE "awaitApi"

Modify(o, ad, hasId) ==
    /\ Begin(o, ad)
    /\ pc' = ModifyOutcome(ad, hasId, api)
    /\ error' = IF ModifyOutcome(ad, hasId, api) = "rejected"
                THEN (IF hasId THEN "TypeError" ELSE "MissingId") ELSE "none"
    /\ transport' = IF ModifyOutcome(ad, hasId, api) = "awaitApi"
                    THEN Append(transport, [adapter |-> ad, call |-> o])
                    ELSE transport
    /\ UNCHANGED << turns, lookup, options, api, inboundVars, outboundVars >>

updateActivity(ad, hasId) == Modify("updateActivity", ad, hasId)
deleteActivity(ad, hasId) == Modify("deleteActivity", ad, hasId)

\* The Hangouts call settles: anything but a result with status 200 throws.
ModifyApiSettles(ok) ==
    /\ op \in {"updateActivity", "deleteActivity"} /\ pc = "awaitApi"
    /\ pc' = IF ok THEN "resolved" ELSE "rejected"
    /\ error' = IF ok THEN "none" ELSE "TransportError"
    /\ UNCHANGED << turns, lookup, options, api, opsDone, op, adapter, inboundVars, outboundVars, transport >>

\* ------------------------------------------------- translators on their own

\* Where an outgoing activity may be addressed: a phone number or page-scoped
\* id, a Hangouts space with a thread name, a Hangouts space with a thread key.
OutConversations ==
    { [id |-> "+15551234567"],
      [id |-> "spaces/S", thread |-> "spaces/S/threads/T", threadKey |-> Null],
      [id |-> "spaces/S", thread |-> Null, threadKey |-> "thread-key-1"] }

OutChannelData ==
    { [mediaUrl |-> "https://bot.example/cat.png"],
      [mediaUrl |-> ""],
      [tag |-> "CONFIRMED_EVENT_UPDATE"],
      [messaging_type |-> "MESSAGE_TAG", tag |-> "ACCOUNT_UPDATE"],
      [notification_type |-> "SILENT_PUSH", persona_id |-> "persona-1"],
      [sticker_id |-> "369239263222822"],
      [sender_action |-> "typing_on"],
      [attachment |-> [type |-> "image", payload |-> [url |-> "https://bot.example/cat.png"]]],
      [quick_replies |-> << [title |-> "Yes", payload |-> "yes"],
                            [content_type |-> "user_email"],
                            [content_type |-> "text", title |-> "No", payload |-> "no"] >>] }

\* Outgoing Message activities, with and without channelData.
OutMessages ==
    { [type |-> ActivityTypes.Message, text |-> t, conversation |-> c] :
        t \in {"hello", "see this"}, c \in OutConversations }
    \cup
    { [type |-> ActivityTypes.Message, text |-> t, conversation |-> c, channelData |-> cd] :
        t \in {"hello", "see this"}, c \in OutConversations, cd \in OutChannelData }

\* Sub-events Facebook delivers.
FacebookMessages ==
    { FbMsg(1, "a"), FbPostback(2), FbSticker(3), FbEcho(4), FbOptin(5), FbDelivery(6) }

\* The activities inbound translation makes of the platform's payloads.
InboundActivities(ad) ==
    CASE ad = "twilio" -> { TwilioActivity(e) : e \in TwilioEvents }
      [] ad = "facebook" -> { FacebookActivity(m) : m \in FacebookMessages }
      [] ad = "hangouts" -> { HangoutsActivity(ev) : ev \in HangoutsEventShapes }

\* activityToTwilio / activityToFacebook / activityToHangouts called with an
\* activity: a synchronous call that returns the platform message.
TranslateActivity(ad, activity) ==
    /\ Begin("activityTo", ad)
    /\ pc' = "resolved"
    /\ error' = "none"
    /\ translation' = [activity |-> activity, message |-> Translate(ad, activity),
                       after |-> ArgumentAfter(ad, activity)]
    /\ UNCHANGED << turns, lookup, options, api, inboundVars, activities, a, responses, transport >>

\* ------------------------------------------------------------ construction

\* The options a caller may pass, by name, with the value each has when given.
TwilioOptionValues ==
    [twilio_number |-> TwilioNumber, account_sid |-> "AC-account-sid",
     auth_token |-> AuthToken, validation_url |-> PublicUrl]

FacebookOptionValues ==
    [verify_token |-> "fb-verify-token", app_secret |-> AppSecret,
     access_token |-> "page-token", getAccessTokenForPage |-> "<function>"]

HangoutsOptionValues ==
    [token |-> HangoutsToken, google_auth_params |-> "<credentials>"]

\* Every options object that gives some of the options and omits the others.
OptionObjects(values) == { [k \in S |-> values[k]] : S \in SUBSET DOMAIN values }

ConstructorArguments(ad) ==
    CASE ad = "twilio" -> OptionObjects(TwilioOptionValues)
      [] ad = "facebook" -> OptionObjects(FacebookOptionValues)
      [] ad = "hangouts" -> OptionObjects(HangoutsOptionValues)

\* this.options: Facebook merges the argument over its defaults, the others
\* keep the argument.
StoredOptions(ad, opts) ==
    IF ad = "facebook"
    THEN Assign([api_host |-> "graph.facebook.com", api_version |-> "v3.2"], opts)
    ELSE opts

\* The checks each constructor makes before it returns.
TwilioConstructorThrows(opts) ==
    \/ ~TruthyStr(opts, "twilio_number")
    \/ ~TruthyStr(opts, "account_sid")
    \/ ~TruthyStr(opts, "auth_token")

FacebookConstructorThrows(opts) ==
    \/ ~TruthyStr(opts, "access_token") /\ ~TruthyStr(opts, "getAccessTokenForPage")
    \/ ~TruthyStr(opts, "app_secret")

HangoutsConstructorThrows(opts) == ~TruthyStr(opts, "token")

ConstructorThrows(ad, opts) ==
    CASE ad = "twilio" -> TwilioConstructorThrows(opts)
      [] ad = "facebook" -> FacebookConstructorThrows(StoredOptions(ad, opts))
      [] ad = "hangouts" -> HangoutsConstructorThrows(opts)

\* new <Adapter>(opts).  this.options is assigned before the checks; a throw
\* leaves the caller without an instance ("rejected"), a return hands it the
\* adapter ("resolved").  A new Hangouts adapter has no this.api until its
\* getClient promise resolves.
constructor(ad, opts) ==
    /\ Begin("constructor", ad)
    /\ options' = [options EXCEPT ![ad] = StoredOptions(ad, opts)]
    /\ pc' = IF ConstructorThrows(ad, opts) THEN "rejected" ELSE "resolved"
    /\ error' = IF ConstructorThrows(ad, opts) THEN "ConfigurationError" ELSE "none"
    /\ api' = IF ad = "hangouts" /\ ~ConstructorThrows(ad, opts) THEN "unset" ELSE api
    /\ UNCHANGED << turns, lookup, inboundVars, outboundVars, transport >>

\* ------------------------------------------------------- Facebook getAPI

\* new FacebookAPI(token, secret, api_host, api_version)
FacebookAPI(token, secret, api_host, api_version) ==
    [token |-> token, secret |-> secret, api_host |-> api_host, api_version |-> api_version]

\* What options.getAccessTokenForPage(pageid) may resolve with: the token of
\* that page, or nothing.
PageToken(pageid) == "token-of-" \o pageid
LookupResults(pageid) == { PageToken(pageid), Undefined, "" }

\* A lookup that always asks for the recipient.
GetApiPageIdOfRecipient(activity) == activity.recipient.id

\* The page id getAPI asks for: the recipient, or the sender of an echo.
GetApiPageId(activity) ==
    IF /\ Has(activity, "channelData") /\ Has(activity.channelData, "message")
       /\ Has(activity.channelData.message, "is_echo")
       /\ activity.channelData.message.is_echo = TRUE
    THEN activity.from.id
    ELSE activity.recipient.id

\* getAPI(activity) up to its await of the lookup, on an adapter whose
\* constructor returned.  With access_token the client is made at once; with
\* no recipient id nothing is made and undefined is returned.
getAPI(activity) ==
    /\ ~FacebookConstructorThrows(options.facebook)
    /\ Begin("getAPI", "facebook")
    /\ error' = "none"
    /\ IF TruthyStr(options.facebook, "access_token")
       THEN /\ pc' = "resolved"
            /\ lookup' = [NoLookup EXCEPT
                             !.activity = activity,
                             !.made = TRUE,
                             !.client = FacebookAPI(options.facebook.access_token,
                                                    options.facebook.app_secret,
                                                    options.facebook.api_host,
                                                    options.facebook.api_version)]
       ELSE IF TruthyStr(activity.recipient, "id")
       THEN /\ pc' = "awaitToken"
            /\ lookup' = [NoLookup EXCEPT !.activity = activity,
                                          !.asked = << GetApiPageId(activity) >>]
       ELSE /\ pc' = "resolved"
            /\ lookup' = [NoLookup EXCEPT !.activity = activity]
    /\ UNCHANGED << turns, options, api, inboundVars, outboundVars, transport >>

\* The lookup resolves: no token is an error, a token makes the client.
LookupResolves(token) ==
    /\ op = "getAPI" /\ pc = "awaitToken"
    /\ token \in LookupResults(lookup.asked[1])
    /\ IF token \in {Undefined, ""}
       THEN /\ pc' = "rejected"
            /\ error' = "Missing credentials for page."
            /\ lookup' = [lookup EXCEPT !.token = token]
       ELSE /\ pc' = "resolved"
            /\ error' = "none"
            /\ lookup' = [lookup EXCEPT
                             !.token = token,
                             !.made = TRUE,
                             !.client = FacebookAPI(token, options.facebook.app_secret,
                                                    options.facebook.api_host,
                                                    options.facebook.api_version)]
    /\ UNCHANGED << turns, options, api, opsDone, op, adapter, inboundVars,
                    outboundVars, transport >>

\* ------------------------------------------- webhooks in flight together

\* Requests for the interleaved runs: per adapter two that verify and one that
\* does not.
TogetherRequests(ad) ==
    CASE ad = "twilio" ->
            { r \in TwilioRequests :
                /\ r.style = "express" /\ r.protocol = "https"
                /\ r.body.MessageSid \in {"SM1", "SM2"}
                /\ \/ r.headers = << >> /\ r.body.MessageSid = "SM1"
                   \/ /\ Has(r.headers, "x-twilio-signature")
                      /\ r.headers["x-twilio-signature"] =
                            TwilioSignature(AuthToken, PublicUrl, r.body) }
      [] ad = "hangouts" ->
            { r \in HangoutsRequests :
                /\ r.body.eventTime \in {"t1", "t4"} /\ r.body.space.type = "ROOM"
                /\ Has(r.body, "token")
                /\ r.body.token = HangoutsToken \/ r.body.eventTime = "t1" }

\* What the logic of an interleaved run may leave in its turn state.
TogetherStatuses == {500}
TogetherBodies == {"reply-body"}

\* A TurnContext kept on the adapter, one for all invocations.
ContextOfAdapter(s) == "first"

\* const context = new TurnContext(this, activity): the context, and with it
\* the turn state, is a local of the invocation that made it.
ContextOf(s) == s

\* processActivity up to its first await, on the locals of one invocation.
StartTurn(ad, r) ==
    CASE ad = "twilio" ->
            IF TwilioVerifyThrows(options.twilio, r)
            THEN [IdleTurn EXCEPT !.adapter = ad, !.req = r, !.pc = "rejected",
                                  !.error = "TypeError"]
            ELSE IF TwilioVerifySignature(options.twilio, r)
            THEN [IdleTurn EXCEPT !.adapter = ad, !.req = r, !.pc = "verified"]
            ELSE [IdleTurn EXCEPT !.adapter = ad, !.req = r, !.pc = "resolved",
                                  !.res = ResSend(ResStatus(FreshRes, 400), InvalidSignatureBody)]
      [] ad = "hangouts" ->
            IF HangoutsTokenRejected(options.hangouts, r.body)
            THEN [IdleTurn EXCEPT !.adapter = ad, !.req = r, !.pc = "resolved",
                                  !.res = ResStatus(FreshRes, 401)]
            ELSE [IdleTurn EXCEPT !.adapter = ad, !.req = r, !.pc = "callback",
                                  !.calls = << HangoutsActivity(r.body) >>,
                                  !.res = IF HangoutsRespondsFirst(r.body)
                                          THEN ResEnd(ResStatus(FreshRes, 200)) ELSE FreshRes]

\* The Hangouts adapter sets httpStatus 200 on the new context of a card click.
StartTurnState(ad, r) ==
    IF ad = "hangouts" /\ ~HangoutsTokenRejected(options.hangouts, r.body)
       /\ ~HangoutsRespondsFirst(r.body)
    THEN TurnSet(<< >>, "httpStatus", 200) ELSE << >>

TogetherProcessActivity(s, ad, r) ==
    /\ turns[s].pc = "idle"
    /\ turns' = [[turns EXCEPT ![s] = StartTurn(ad, r)]
                    EXCEPT ![ContextOf(s)].turnState = StartTurnState(ad, r)]
    /\ UNCHANGED << lookup, options, api, opsDone, op, adapter, pc, error, inboundVars,
                    outboundVars, transport >>

\* Twilio after verifySignature: activity, context, httpStatus 200, logic.
TogetherTranslate(s) ==
    /\ turns[s].adapter = "twilio" /\ turns[s].pc = "verified"
    /\ turns' = [[turns EXCEPT ![s].calls = << TwilioActivity(turns[s].req.body) >>,
                               ![s].pc = "callback"]
                    EXCEPT ![ContextOf(s)].turnState = TurnSet(<< >>, "httpStatus", 200)]
    /\ UNCHANGED << lookup, options, api, opsDone, op, adapter, pc, error, inboundVars,
                    outboundVars, transport >>

\* The logic of one invocation writes the turn state of the context it got.
TogetherSetStatus(s, code) ==
    /\ turns[s].pc = "callback"
    /\ turns' = [turns EXCEPT ![ContextOf(s)].turnState = TurnSet(@, "httpStatus", code)]
    /\ UNCHANGED << lookup, options, api, opsDone, op, adapter, pc, error, inboundVars,
                    outboundVars, transport >>

TogetherSetBody(s, body) ==
    /\ turns[s].pc = "callback"
    /\ turns' = [turns EXCEPT ![ContextOf(s)].turnState = TurnSet(@, "httpBody", body)]
    /\ UNCHANGED << lookup, options, api, opsDone, op, adapter, pc, error, inboundVars,
                    outboundVars, transport >>

TogetherReturns(s) ==
    /\ turns[s].pc = "callback"
    /\ turns' = [turns EXCEPT ![s].pc = "returned"]
    /\ UNCHANGED << lookup, options, api, opsDone, op, adapter, pc, error, inboundVars,
                    outboundVars, transport >>

TogetherThrows(s) ==
    /\ turns[s].pc = "callback"
    /\ turns' = [turns EXCEPT ![s].pc = "threw"]
    /\ UNCHANGED << lookup, options, api, opsDone, op, adapter, pc, error, inboundVars,
                    outboundVars, transport >>

\* After the logic: the response is written from the context's turn state.
TogetherRespond(s) ==
    /\ turns[s].pc = "returned"
    /\ turns' = [turns EXCEPT
                    ![s].pc = "resolved",
                    ![s].res =
                       IF turns[s].adapter = "twilio"
                       THEN TwilioWriteResponse(@, turns[ContextOf(s)].turnState)
                       ELSE IF turns[s].req.body.type = "CARD_CLICKED"
                       THEN HangoutsWriteResponse(@, turns[ContextOf(s)].turnState)
                       ELSE @]
    /\ UNCHANGED << lookup, options, api, opsDone, op, adapter, pc, error, inboundVars,
                    outboundVars, transport >>

TogetherLogicError(s) ==
    /\ turns[s].pc = "threw"
    /\ turns' = [turns EXCEPT
                    ![s].pc = IF turns[s].adapter = "twilio"
                              THEN TwilioOnLogicError.pc ELSE HangoutsOnLogicError.pc,
                    ![s].error = IF turns[s].adapter = "twilio"
                                 THEN TwilioOnLogicError.error ELSE HangoutsOnLogicError.error]
    /\ UNCHANGED << lookup, options, api, opsDone, op, adapter, pc, error, inboundVars,
                    outboundVars, transport >>

\* --------------------------------------------------------------------- spec

\* The webhook path: processActivity on each adapter, with the logic callback
\* as its environment.
Next ==
    \/ \E r \in TwilioRequests : TwilioProcessActivity(r)
    \/ TwilioTranslate
    \/ TwilioRespond
    \/ TwilioLogicError
    \/ \E r \in FacebookRequests : FacebookProcessActivity(r)
    \/ FacebookNoEntry
    \/ FacebookDispatch
    \/ FacebookTypeError
    \/ FacebookRespond
    \/ FacebookLogicError
    \/ \E r \in HangoutsRequests : HangoutsProcessActivity(r)
    \/ HangoutsRespond
    \/ HangoutsLogicError
    \/ \E code \in CallbackStatuses : CallbackSetStatus(code)
    \/ \E body \in CallbackBodies : CallbackSetBody(body)
    \/ replyWithNew
    \/ replyWithUpdate
    \/ CallbackReturns
    \/ CallbackThrows

Spec == Init /\ [][Next]_vars

\* The outbound path: sendActivities, updateActivity and deleteActivity on each
\* adapter, with the platform APIs as their environment.
NextOut ==
    \/ GetClientResolves
    \/ \E ad \in Adapters, acts \in ActivityLists : SendActivities(ad, acts)
    \/ SendApiResolves
    \/ SendApiRejects
    \/ \E ad \in Adapters, hasId \in BOOLEAN : updateActivity(ad, hasId)
    \/ \E ad \in Adapters, hasId \in BOOLEAN : deleteActivity(ad, hasId)
    \/ \E ok \in BOOLEAN : ModifyApiSettles(ok)

SpecOut == Init /\ [][NextOut]_vars

\* Construction: each adapter's constructor on every options object.
NextNew ==
    \/ \E ad \in Adapters : \E opts \in ConstructorArguments(ad) : constructor(ad, opts)
    \/ GetClientResolves

SpecNew == Init /\ [][NextNew]_vars

\* Translation: each outbound translator on outgoing messages and on the
\* activities its own adapter produced inbound.
NextTranslate ==
    \E ad \in Adapters : \E activity \in OutMessages \cup InboundActivities(ad) :
        TranslateActivity(ad, activity)

SpecTranslate == Init /\ [][NextTranslate]_vars

\* Two webhooks on the Twilio and Hangouts adapters, interleaved at their
\* awaits in every order.
NextTogether ==
    \/ \E s \in Invocations, ad \in {"twilio", "hangouts"} :
          \E r \in TogetherRequests(ad) : TogetherProcessActivity(s, ad, r)
    \/ \E s \in Invocations : TogetherTranslate(s)
    \/ \E s \in Invocations, code \in TogetherStatuses : TogetherSetStatus(s, code)
    \/ \E s \in Invocations, body \in TogetherBodies : TogetherSetBody(s, body)
    \/ \E s \in Invocations : TogetherReturns(s)
    \/ \E s \in Invocations : TogetherThrows(s)
    \/ \E s \in Invocations : TogetherRespond(s)
    \/ \E s \in Invocations : TogetherLogicError(s)

SpecTogether == Init /\ [][NextTogether]_vars

\* The Facebook adapter constructed in either mode, then getAPI on the
\* activities it receives.
NextApi ==
    \/ \E opts \in ConstructorArguments("facebook") : constructor("facebook", opts)
    \/ \E activity \in InboundActivities("facebook") : getAPI(activity)
    \/ \E token \in UNION { LookupResults(id) : id \in {"page-1", "user-1"} } :
          LookupResolves(token)

SpecApi == Init /\ [][NextApi]_vars


\* ------------------------------------------------------------------ claims

SigHeader == "x-twilio-signature"
HubHeader == "x-hub-signature"

\* The request of the webhook in progress does not carry the credential its
\* platform would have put on it.
VerificationFails ==
    /\ op = "processActivity"
    /\ CASE adapter = "twilio" ->
              ~(/\ Has(req.headers, SigHeader)
                /\ req.headers[SigHeader] =
                      TwilioSignature(options.twilio.auth_token,
                                      TwilioValidationUrl(options.twilio, req), req.body))
         [] adapter = "facebook" ->
              ~(/\ Has(req.headers, HubHeader)
                /\ req.headers[HubHeader] = HubSignature(options.facebook.app_secret, req.rawBody))
         [] adapter = "hangouts" ->
              ~(Has(req.body, "token") /\ req.body.token = options.hangouts.token)
         [] OTHER -> FALSE

Verified == op = "processActivity" /\ ~VerificationFails

Count(sq, x) == Cardinality({ i \in DOMAIN sq : sq[i] = x })

\* C1: a webhook whose verification fails never reaches the logic callback and
\* no activity or TurnContext is built for it, on any adapter.
C1_NoCallbackOnFailedVerification ==
    VerificationFails => calls = << >> /\ Count(trace, "call") = 0

C1_Witness ==
    /\ VerificationFails /\ adapter = "twilio" /\ req.style = "express"
    /\ Has(req.headers, SigHeader) /\ pc = "resolved"

\* The verifier ran to its verdict on that request (it did not crash on the
\* request's shape) and the verdict was a failure.
VerdictIsFailure == VerificationFails /\ error # "TypeError"

\* C2 (as claimed): once processActivity has settled on a request that fails
\* verification, the response has status 400 or 401, a body, and is ended.
C2_FailureResponseComplete ==
    VerdictIsFailure /\ Settled =>
        res.status \in {400, 401} /\ res.ended /\ res.body # NoBody

\* C3 (as claimed): processActivity on a request that fails verification
\* resolves; it does not reject.
C3_FailureSettlesNormally ==
    VerdictIsFailure /\ Settled => pc = "resolved"

\* The sub-events of a Facebook delivery in dispatch order: for each entry its
\* changes or messaging array, then its standby array.
RECURSIVE SubEvents(_)
SubEvents(entry) ==
    IF entry = << >> THEN << >>
    ELSE LET en == Head(entry) IN
         (IF Has(en, "changes") THEN en.changes
          ELSE IF Has(en, "messaging") THEN en.messaging ELSE << >>)
         \o (IF Has(en, "standby") THEN en.standby ELSE << >>)
         \o SubEvents(Tail(entry))

Timestamps(sq) == [i \in DOMAIN sq |-> sq[i].timestamp]
CallTimestamps == [i \in DOMAIN calls |-> calls[i].channelData.timestamp]

\* C4 (as claimed): a verified Facebook delivery with N sub-events, none of
\* whose callbacks throws, ends with exactly N callback invocations, in entry
\* order and array order.
C4_OneCallPerSubEvent ==
    /\ adapter = "facebook" /\ Verified /\ Settled
    /\ Has(req.body, "entry") /\ error # "CallbackError"
    => CallTimestamps = Timestamps(SubEvents(req.body.entry))

\* C5: once the logic callback has thrown, nothing more is dispatched and
\* nothing is retried (the throw is the last thing that happened), and
\* processActivity rejects with the callback's error.
C5_CallbackErrorPropagates ==
    Count(trace, "throw") > 0 =>
        /\ trace[Len(trace)] = "throw"
        /\ Count(trace, "throw") = 1
        /\ Count(trace, "call") = Len(calls)
        /\ pc \in {"threw", "rejected"}
        /\ pc = "rejected" => error = "CallbackError"

C5_Witness ==
    /\ adapter = "facebook" /\ req.rawBody = "batch"
    /\ Len(calls) = 2 /\ pc = "rejected" /\ error = "CallbackError"


\* What the claim expects on the wire from the turn state the callback left:
\* its status (200 when it set none) and its body (none when it set none).
ExpectedStatus(ts) == IF Has(ts, "httpStatus") THEN ts.httpStatus ELSE 200
ExpectedBody(ts) == IF TruthyStr(ts, "httpBody") THEN ts.httpBody ELSE NoBody

\* The webhook was verified, its logic ran and processActivity resolved.
Completed == Verified /\ pc = "resolved" /\ calls # << >>

TurnStateAdapter ==
    \/ adapter = "twilio"
    \/ adapter = "hangouts" /\ req.body.type = "CARD_CLICKED"

\* C6 (as claimed): on Twilio, Facebook and a Hangouts card click, the response
\* of a completed webhook carries the status and body left in turn state.
C6_ResponseFromTurnState ==
    Completed /\ (TurnStateAdapter \/ adapter = "facebook") =>
        /\ res.ended
        /\ res.status = ExpectedStatus(turnState)
        /\ res.body = ExpectedBody(turnState)

\* C6 (amended): that holds on Twilio and on a Hangouts card click; a completed
\* Facebook delivery is always answered 200 with an empty body, whatever the
\* callbacks left in turn state.
C6_ResponseFromTurnStateAmended ==
    /\ Completed /\ TurnStateAdapter =>
          /\ res.ended /\ res.ends = 1
          /\ res.status = ExpectedStatus(turnState)
          /\ res.body = ExpectedBody(turnState)
    /\ Completed /\ adapter = "facebook" =>
          /\ res.ended /\ res.ends = 1
          /\ res.status = 200
          /\ res.body = NoBody

C6_Witness ==
    /\ Completed /\ adapter = "twilio"
    /\ Has(turnState, "httpBody") /\ turnState.httpBody = "reply-body"
    /\ turnState.httpStatus = 500 /\ res.status = 500

IsWrite(ev) == ev \in {"status", "send", "end"}

Accepted == adapter = "hangouts" /\ Verified

\* C7: Hangouts answers an accepted event that is no card click with an ended
\* 200 before the logic starts and writes nothing afterwards; a card click gets
\* no write until the logic has completed, and then the status and body of
\* turn state.
C7_HangoutsResponseTiming ==
    Accepted =>
        IF req.body.type # "CARD_CLICKED"
        THEN /\ Len(trace) >= 3
             /\ SubSeq(trace, 1, 3) = << "status", "end", "call" >>
             /\ \A i \in 4..Len(trace) : ~IsWrite(trace[i])
             /\ res = [status |-> 200, body |-> NoBody, ended |-> TRUE, ends |-> 1]
        ELSE /\ trace[1] = "call"
             /\ pc # "resolved" =>
                   /\ res = FreshRes
                   /\ \A i \in DOMAIN trace : ~IsWrite(trace[i])
             /\ pc = "resolved" =>
                   /\ Len(trace) = 4 /\ trace[2] = "return"
                   /\ IsWrite(trace[3]) /\ IsWrite(trace[4])
                   /\ res.ended /\ res.ends = 1
                   /\ res.status = ExpectedStatus(turnState)
                   /\ res.body = ExpectedBody(turnState)

C7_Witness ==
    /\ Accepted /\ req.body.type = "CARD_CLICKED" /\ pc = "resolved"
    /\ res.body = "NEW_MESSAGE" /\ res.status = 202

AllNonMessage(acts) == \A i \in DOMAIN acts : acts[i].type # ActivityTypes.Message

\* C8: in sendActivities of every adapter a transport call is only ever made
\* for a Message activity and a response entry only ever stands for one; a list
\* without a Message activity resolves at once with no responses, no error and
\* the platform untouched, however often it is sent.
C8_NonMessageIsNoOp ==
    [][op' = "sendActivities" =>
         /\ transport' # transport =>
               /\ a' \in DOMAIN activities'
               /\ activities'[a'].type = ActivityTypes.Message
               /\ transport' = Append(transport, CreateCall(adapter', activities'[a']))
         /\ responses' # responses /\ responses' # << >> =>
               /\ activities[a].type = ActivityTypes.Message
               /\ Len(responses') = Len(responses) + 1
         /\ AllNonMessage(activities') =>
               /\ pc' = "resolved" /\ error' = "none"
               /\ responses' = << >> /\ transport' = transport]_vars

C8_Witness ==
    /\ op = "sendActivities" /\ opsDone = 2 /\ pc = "resolved"
    /\ activities = << OutTyping, OutTyping >>
    /\ transport # << >> /\ responses = << >>

\* C9 (as claimed): a failed platform call makes sendActivities reject, without
\* another call, on every adapter.
C9_SendFailureRejects ==
    [][SendApiRejects => pc' = "rejected" /\ transport' = transport]_vars

\* The activity whose call has just failed is not sent again: the loop is over
\* or the next call is for a later activity.
NoRetry == transport' = transport \/ (Len(transport') = Len(transport) + 1 /\ a' > a)

\* C9 (amended): Twilio rejects with the transport error and makes no further
\* call; Facebook and Hangouts catch the error, push no response for that
\* activity, go on with the rest of the list and resolve.  No adapter retries.
C9_SendFailureAmended ==
    [][SendApiRejects =>
         /\ NoRetry
         /\ responses' = responses
         /\ IF adapter = "twilio"
            THEN pc' = "rejected" /\ error' = "TransportError" /\ transport' = transport
            ELSE pc' \in {"resolved", "awaitApi"} /\ error' = "none"]_vars

C9_Witness ==
    /\ op = "sendActivities" /\ adapter = "facebook" /\ opsDone = 1
    /\ pc = "resolved" /\ error = "none"
    /\ Len(transport) = 2 /\ Len(responses) = 1

\* C10: on Twilio and Facebook, updateActivity and deleteActivity resolve for
\* any argument, call no platform API, write no HTTP response and change
\* nothing of the adapter.
C10_UnsupportedIsNoOp ==
    [][/\ op' \in {"updateActivity", "deleteActivity"}
       /\ adapter' \in {"twilio", "facebook"}
       /\ opsDone' = opsDone + 1
       => /\ pc' = "resolved" /\ error' = "none"
          /\ UNCHANGED << transport, res, options, api, inboundVars, outboundVars >>]_vars

C10_Witness ==
    /\ op = "deleteActivity" /\ adapter = "twilio" /\ pc = "resolved"
    /\ opsDone = 2 /\ transport # << >>

\* The options each options interface declares without "?".
MandatoryOptions(ad) ==
    CASE ad = "twilio" -> {"twilio_number", "account_sid", "auth_token"}
      [] ad = "facebook" -> {"verify_token", "app_secret"}
      [] ad = "hangouts" -> {"token"}

\* Some mandatory option of the adapter just constructed was not given
\* (Facebook also needs one of its two ways to an access token).
MandatoryMissing ==
    \/ \E k \in MandatoryOptions(adapter) : ~Has(options[adapter], k)
    \/ /\ adapter = "facebook"
       /\ ~Has(options.facebook, "access_token")
       /\ ~Has(options.facebook, "getAccessTokenForPage")

\* C11 (as claimed): a constructor throws exactly when a mandatory option is
\* missing, and returns an adapter when all are present.
C11_MandatoryOptionsEnforced ==
    op = "constructor" => (pc = "rejected" <=> MandatoryMissing)

\* The sub-event the i-th call of a Facebook delivery was made for: the loop
\* dispatches them in order.
Dispatched(i) == SubEvents(req.body.entry)[i]

FacebookCalls ==
    IF adapter = "facebook" /\ op = "processActivity" THEN DOMAIN calls ELSE {}

\* C12: the activity of a Facebook sub-event without sender but with
\* optin.user_ref has from.id and conversation.id equal to that user_ref; the
\* activity of a sub-event with a sender has them equal to sender.id.
C12_OptinSenderBackfill ==
    \A i \in FacebookCalls :
        LET ev == Dispatched(i) IN
        /\ ~Has(ev, "sender") /\ Has(ev, "optin") /\ TruthyStr(ev.optin, "user_ref") =>
              /\ calls[i].from.id = ev.optin.user_ref
              /\ calls[i].conversation.id = ev.optin.user_ref
        /\ Has(ev, "sender") =>
              /\ calls[i].from.id = ev.sender.id
              /\ calls[i].conversation.id = ev.sender.id

C12_Witness ==
    /\ FacebookCalls = {1, 2} /\ req.rawBody = "optin"
    /\ calls[1].from.id = "user-ref-9" /\ calls[2].from.id = "user-1"

\* message.is_echo is set on the sub-event.
EchoSet(ev) ==
    Has(ev, "message") /\ Has(ev.message, "is_echo") /\ ev.message.is_echo = TRUE

\* C13: a Facebook sub-event whose message has is_echo set reaches the logic
\* as an Event, never as a Message, whether or not the event-type middleware
\* has run on it.
C13_EchoIsEvent ==
    \A i \in FacebookCalls :
        EchoSet(Dispatched(i)) =>
            /\ calls[i].type = ActivityTypes.Event
            /\ onTurn(calls[i]).type = ActivityTypes.Event

C13_Witness ==
    /\ FacebookCalls # {} /\ req.rawBody = "echo"
    /\ EchoSet(Dispatched(1)) /\ calls[1].text = "sent by the bot"
    /\ onTurn(calls[1]).channelData.botkitEventType = "message_echo"

\* The activities an adapter has handed to the logic for the webhook at hand.
InboundCalls == IF op = "processActivity" THEN DOMAIN calls ELSE {}

\* The platform payload the i-th activity was translated from: the webhook
\* body, or the sub-event for Facebook.
Payload(i) == IF adapter = "facebook" THEN Dispatched(i) ELSE req.body

\* C14 (as claimed): channelData of every activity handed to the logic equals
\* the payload it was translated from, field for field.
C14_ChannelDataVerbatim ==
    \A i \in InboundCalls : calls[i].channelData = Payload(i)

\* The fields translation may write on the payload object: Botkit's event
\* type on Twilio and Hangouts; on Facebook the backfilled sender, a
\* top-level copy of each field of message, and the standby mark.
Written(payload) ==
    IF adapter = "facebook"
    THEN {"standby"}
         \cup (IF Has(payload, "sender") THEN {} ELSE {"sender"})
         \cup (IF Has(payload, "message") THEN DOMAIN payload.message ELSE {})
    ELSE {"botkitEventType"}

BotkitEventTypes ==
    IF adapter = "twilio" THEN {"picture_message"}
    ELSE {"direct_message", "bot_room_join", "bot_dm_join", "bot_room_leave",
          "bot_dm_leave", "card_clicked"}

\* C14 (amended): channelData keeps every field of the payload with its value,
\* except that translation writes botkitEventType on it (Twilio, Hangouts) or
\* the backfilled sender, the fields of message and the standby mark
\* (Facebook); it has no other field the payload lacks.
C14_ChannelDataExtendsPayload ==
    \A i \in InboundCalls :
        LET cd == calls[i].channelData
            payload == Payload(i) IN
        /\ \A k \in DOMAIN payload \ Written(payload) :
              Has(cd, k) /\ cd[k] = payload[k]
        /\ DOMAIN cd \ DOMAIN payload \subseteq Written(payload)
        /\ adapter # "facebook" /\ Has(cd, "botkitEventType") =>
              cd.botkitEventType \in BotkitEventTypes
        /\ adapter = "facebook" /\ Has(payload, "message") =>
              \A k \in DOMAIN payload.message : cd[k] = payload.message[k]
        /\ adapter = "facebook" /\ ~Has(payload, "sender") =>
              cd.sender = [id |-> payload.optin.user_ref]

C14_Witness ==
    /\ InboundCalls # {} /\ adapter = "twilio" /\ req.body.MessageSid = "SM2"
    /\ calls[1].channelData # req.body
    /\ calls[1].channelData.botkitEventType = "picture_message"

\* The payload carries no text: no Body (Twilio); a message without text, or
\* neither message nor postback (Facebook); no message, or a message without
\* argumentText (Hangouts).
NoText(payload) ==
    CASE adapter = "twilio" -> ~Has(payload, "Body")
      [] adapter = "facebook" ->
            IF Has(payload, "message") THEN ~Has(payload.message, "text")
            ELSE ~Has(payload, "postback")
      [] adapter = "hangouts" ->
            ~Has(payload, "message") \/ ~Has(payload.message, "argumentText")

\* C15 (as claimed): the activity of a payload without text has the empty
\* string as its text, on every adapter.
C15_AbsentTextIsEmpty ==
    \A i \in InboundCalls : NoText(Payload(i)) => calls[i].text = ""

\* C15 (amended): that holds on Hangouts; on Facebook the text is null for a
\* sub-event with neither message nor postback and undefined for a message
\* without text; on Twilio it is undefined for a body without Body.
C15_AbsentTextByAdapter ==
    \A i \in InboundCalls :
        NoText(Payload(i)) =>
            calls[i].text =
                CASE adapter = "hangouts" -> ""
                  [] adapter = "twilio" -> Undefined
                  [] adapter = "facebook" ->
                        IF Has(Payload(i), "message") THEN Undefined ELSE Null

C15_Witness ==
    /\ InboundCalls # {} /\ adapter = "hangouts" /\ req.body.eventTime = "t6"
    /\ NoText(Payload(1)) /\ calls[1].text = ""

\* verifySignature has returned true on the Twilio webhook at hand and
\* processActivity has gone on from there.
TwilioAccepted ==
    /\ adapter = "twilio" /\ Verified
    /\ ~(pc = "rejected" /\ error = "TypeError")
    /\ pc # "verified"

\* C16: a Twilio webhook that passed verification gives exactly one callback
\* invocation, with id = MessageSid, channelId 'twilio-sms', conversation.id =
\* from.id = From, recipient.id = To, text = Body and type Message.
C16_TwilioOneActivity ==
    TwilioAccepted =>
        /\ Len(calls) = 1 /\ Count(trace, "call") = 1
        /\ calls[1].id = req.body.MessageSid
        /\ calls[1].channelId = "twilio-sms"
        /\ calls[1].conversation.id = req.body.From
        /\ calls[1].from.id = req.body.From
        /\ calls[1].recipient.id = req.body.To
        /\ calls[1].text = Field(req.body, "Body")
        /\ calls[1].type = ActivityTypes.Message

C16_Witness ==
    /\ TwilioAccepted /\ pc = "resolved" /\ req.style = "restify"
    /\ calls[1].id = "SM1" /\ calls[1].text = "hi"
    /\ calls[1].conversation.id = "+15551234567"

\* NumMedia is present and reads as a whole number above zero.
HasMedia(body) == Has(body, "NumMedia") /\ body.NumMedia \in {"1", "2"}

\* C17: a verified Twilio webhook carries channelData.botkitEventType =
\* 'picture_message' exactly when NumMedia is present and parses to more than
\* zero; absent, '0' or non-numeric sets no subtype; the type is Message
\* either way.
C17_PictureMessageSubtype ==
    TwilioAccepted =>
        /\ HasMedia(req.body) <=> Has(calls[1].channelData, "botkitEventType")
        /\ HasMedia(req.body) => calls[1].channelData.botkitEventType = "picture_message"
        /\ calls[1].type = ActivityTypes.Message

C17_Witness ==
    /\ TwilioAccepted /\ Field(req.body, "NumMedia") = "2"
    /\ calls[1].channelData.botkitEventType = "picture_message"
    /\ calls[1].type = ActivityTypes.Message

\* A translator has just been called on the adapter.
Translated(ad) == op = "activityTo" /\ adapter = ad

\* C18: activityToTwilio gives body = activity.text, to = conversation.id,
\* from = the configured twilio_number, and mediaUrl = channelData.mediaUrl
\* when channelData has one, undefined otherwise.
C18_ActivityToTwilio ==
    Translated("twilio") =>
        LET activity == translation.activity
            message == translation.message IN
        /\ message.body = activity.text
        /\ message.to = activity.conversation.id
        /\ message.from = options.twilio.twilio_number
        /\ message.mediaUrl =
              IF Has(activity, "channelData") /\ Has(activity.channelData, "mediaUrl")
                 /\ activity.channelData.mediaUrl # ""
              THEN activity.channelData.mediaUrl ELSE Undefined
        /\ DOMAIN message = {"body", "from", "to", "mediaUrl"}

C18_Witness ==
    /\ Translated("twilio")
    /\ Has(translation.activity, "channelData")
    /\ translation.message.mediaUrl = "https://bot.example/cat.png"
    /\ translation.message.to = "+15551234567"

\* The activities an adapter makes of payloads that carry a message.
MessageActivities(ad) ==
    { act \in InboundActivities(ad) :
        ad = "twilio" \/ Has(act.channelData, "message") }

\* The text and the target of a platform request.
RequestText(ad, message) ==
    CASE ad = "twilio" -> message.body
      [] ad = "facebook" -> message.message.text
      [] ad = "hangouts" -> message.requestBody.text

RequestTarget(ad, message) ==
    CASE ad = "twilio" -> message.to
      [] ad = "facebook" -> message.recipient.id
      [] ad = "hangouts" -> message.parent

\* C19: the activity an adapter made of an inbound message payload, passed
\* with its channelData through the same adapter's outbound translator, gives
\* a request with the activity's text and the inbound conversation id as its
\* target.
C19_RoundTrip ==
    op = "activityTo" /\ translation.activity \in MessageActivities(adapter) =>
        /\ RequestText(adapter, translation.message) = translation.activity.text
        /\ RequestTarget(adapter, translation.message) = translation.activity.conversation.id

C19_Witness ==
    /\ Translated("hangouts") /\ translation.activity \in MessageActivities("hangouts")
    /\ translation.activity.channelData.type = "MESSAGE"
    /\ translation.message.requestBody.text = "hello"
    /\ translation.message.parent = "spaces/S"

\* The thread key and thread name of a Hangouts conversation, null when not
\* given.
ThreadKeyOf(conversation) ==
    IF Has(conversation, "threadKey") /\ conversation.threadKey \notin {"", Null}
    THEN conversation.threadKey ELSE Null

ThreadOf(conversation) ==
    IF Has(conversation, "thread") /\ conversation.thread \notin {"", Null}
    THEN conversation.thread ELSE Null

\* C20: Hangouts keeps the thread apart from the conversation id.  Inbound,
\* conversation.id is space.name, threadKey is the event's threadKey or null,
\* thread is message.thread.name when there is a message and no threadKey, else
\* null.  Outbound, parent is conversation.id, and threadKey and the thread
\* name travel in threadKey and requestBody.thread, never in parent.
C20_ThreadKeptSeparate ==
    Translated("hangouts") =>
        LET activity == translation.activity
            message == translation.message IN
        /\ activity \in InboundActivities("hangouts") =>
              LET event == activity.channelData IN
              /\ activity.conversation.id = event.space.name
              /\ activity.conversation.threadKey =
                    (IF Has(event, "threadKey") THEN event.threadKey ELSE Null)
              /\ activity.conversation.thread =
                    (IF Has(event, "message") /\ ~Has(event, "threadKey")
                     THEN event.message.thread.name ELSE Null)
        /\ message.parent = activity.conversation.id
        /\ message.threadKey = ThreadKeyOf(activity.conversation)
        /\ IF ThreadOf(activity.conversation) = Null
           THEN message.requestBody.thread = Null
           ELSE message.requestBody.thread = [name |-> ThreadOf(activity.conversation)]
        /\ message.parent \notin
              {ThreadKeyOf(activity.conversation), ThreadOf(activity.conversation)}

C20_Witness ==
    /\ Translated("hangouts")
    /\ translation.activity \in InboundActivities("hangouts")
    /\ translation.activity.conversation.threadKey = "thread-key-1"
    /\ translation.activity.conversation.thread = Null
    /\ translation.message.threadKey = "thread-key-1"
    /\ translation.message.parent = "spaces/S"

StructuralEvents == {"ADDED_TO_SPACE", "REMOVED_FROM_SPACE", "CARD_CLICKED"}

\* The subtype the claim names for a structural event.
StructuralSubtype(event) ==
    CASE event.type = "ADDED_TO_SPACE" ->
            IF event.space.type = "ROOM" THEN "bot_room_join" ELSE "bot_dm_join"
      [] event.type = "REMOVED_FROM_SPACE" ->
            IF event.space.type = "ROOM" THEN "bot_room_leave" ELSE "bot_dm_leave"
      [] event.type = "CARD_CLICKED" -> "card_clicked"

\* C21: Hangouts delivers ADDED_TO_SPACE, REMOVED_FROM_SPACE and CARD_CLICKED
\* as Event, message or not, with subtype bot_room_join / bot_room_leave in a
\* ROOM, bot_dm_join / bot_dm_leave otherwise, card_clicked for a card click;
\* an accepted event is a Message exactly when it carries a message and is
\* none of the three.
C21_HangoutsEventClassification ==
    adapter = "hangouts" /\ InboundCalls # {} =>
        LET event == req.body
            activity == calls[1] IN
        /\ event.type \in StructuralEvents =>
              /\ activity.type = ActivityTypes.Event
              /\ Has(activity.channelData, "botkitEventType")
              /\ activity.channelData.botkitEventType = StructuralSubtype(event)
        /\ activity.type = ActivityTypes.Message <=>
              Has(event, "message") /\ event.type \notin StructuralEvents

C21_Witness ==
    /\ adapter = "hangouts" /\ InboundCalls # {}
    /\ req.body.type = "ADDED_TO_SPACE" /\ Has(req.body, "message")
    /\ calls[1].type = ActivityTypes.Event
    /\ calls[1].channelData.botkitEventType = "bot_dm_join"

\* The quick replies of the activity just translated, and of the request.
SourceQuickReplies == translation.activity.channelData.quick_replies
SentQuickReplies == translation.message.message.quick_replies

HasQuickReplies(activity) ==
    Has(activity, "channelData") /\ Has(activity.channelData, "quick_replies")

\* C22: every quick reply of an outgoing Facebook Message activity reaches the
\* request with a content_type, its own when it has one and 'text' otherwise,
\* with its other fields unchanged and in the same order, and the items of the
\* source activity are left as they were.
C22_QuickReplies ==
    Translated("facebook") /\ HasQuickReplies(translation.activity) =>
        /\ Len(SentQuickReplies) = Len(SourceQuickReplies)
        /\ \A i \in DOMAIN SourceQuickReplies :
              /\ DOMAIN SentQuickReplies[i] = DOMAIN SourceQuickReplies[i] \cup {"content_type"}
              /\ SentQuickReplies[i].content_type =
                    IF Has(SourceQuickReplies[i], "content_type")
                    THEN SourceQuickReplies[i].content_type ELSE "text"
              /\ \A k \in DOMAIN SourceQuickReplies[i] \ {"content_type"} :
                    SentQuickReplies[i][k] = SourceQuickReplies[i][k]
        /\ translation.after = translation.activity

C22_Witness ==
    /\ Translated("facebook") /\ HasQuickReplies(translation.activity)
    /\ ~Has(SourceQuickReplies[1], "content_type")
    /\ SentQuickReplies[1] = [content_type |-> "text", title |-> "Yes", payload |-> "yes"]
    /\ SentQuickReplies[2].content_type = "user_email"
    /\ Len(SentQuickReplies) = 3

\* The string-valued extension fields of a Facebook request, and where the
\* translator puts each.
FacebookExtensionFields ==
    {"messaging_type", "tag", "notification_type", "sticker_id", "sender_action", "persona_id"}

SentField(message, key) ==
    IF key = "sticker_id" THEN message.message.sticker_id ELSE message[key]

\* channelData carries a value for the key.
Carries(activity, key) ==
    Has(activity, "channelData") /\ TruthyStr(activity.channelData, key)

CarriesObject(activity, key) ==
    Has(activity, "channelData") /\ Has(activity.channelData, key)

\* An outgoing Message activity has just been translated by the adapter.
TranslatedMessage(ad) ==
    Translated(ad) /\ translation.activity.type = ActivityTypes.Message

\* The Twilio and the object-valued Facebook fields follow channelData.
MediaUrlFollows ==
    TranslatedMessage("twilio") =>
        translation.message.mediaUrl =
            IF Carries(translation.activity, "mediaUrl")
            THEN translation.activity.channelData.mediaUrl ELSE Undefined

AttachmentFollows ==
    TranslatedMessage("facebook") =>
        IF CarriesObject(translation.activity, "attachment")
        THEN translation.message.message.attachment = translation.activity.channelData.attachment
        ELSE translation.message.message.attachment = Undefined

\* C23 as stated: every extension field of the request (Facebook:
\* messaging_type, tag, notification_type, sticker_id, attachment,
\* quick_replies, sender_action, persona_id; Twilio: mediaUrl) has the value
\* channelData carries for it and is undefined when channelData carries none.
C23_ExtensionFieldsFromChannelData ==
    /\ MediaUrlFollows
    /\ AttachmentFollows
    /\ TranslatedMessage("facebook") =>
          /\ \A k \in FacebookExtensionFields :
                SentField(translation.message, k) =
                    IF Carries(translation.activity, k)
                    THEN translation.activity.channelData[k] ELSE Undefined
          /\ IF HasQuickReplies(translation.activity)
             THEN SentQuickReplies = SourceQuickReplies
             ELSE translation.message.message.quick_replies = Undefined

\* C23, amended: as stated, except that messaging_type is 'RESPONSE' when
\* channelData carries none, and that a quick reply without content_type is
\* sent with content_type 'text'.
C23_ExtensionFieldsWithDefaults ==
    /\ MediaUrlFollows
    /\ AttachmentFollows
    /\ TranslatedMessage("facebook") =>
          /\ \A k \in FacebookExtensionFields :
                SentField(translation.message, k) =
                    IF Carries(translation.activity, k)
                    THEN translation.activity.channelData[k]
                    ELSE IF k = "messaging_type" THEN "RESPONSE" ELSE Undefined
          /\ IF HasQuickReplies(translation.activity)
             THEN SentQuickReplies =
                     [i \in DOMAIN SourceQuickReplies |->
                        IF Has(SourceQuickReplies[i], "content_type")
                        THEN SourceQuickReplies[i]
                        ELSE Assign(SourceQuickReplies[i], [content_type |-> "text"])]
             ELSE translation.message.message.quick_replies = Undefined

C23_Witness ==
    /\ TranslatedMessage("facebook")
    /\ Carries(translation.activity, "sticker_id")
    /\ ~Carries(translation.activity, "messaging_type")
    /\ translation.message.message.sticker_id = "369239263222822"
    /\ translation.message.messaging_type = "RESPONSE"
    /\ translation.message.tag = Undefined

\* The Facebook verifier returned true on the request in progress; the
\* Hangouts adapter went past its token check.
FacebookVerifierReturnedTrue == error # "InvalidSignature"
HangoutsTokenAccepted == calls # << >>

\* C24: the Facebook verifier returns true exactly when x-hub-signature is
\* 'sha1=' + HMAC-SHA1 of the raw body under app_secret, so a changed body, a
\* changed or a missing header is rejected; the Hangouts adapter accepts a
\* request exactly when the token of its JSON body is the configured token.
C24_ExactCredential ==
    /\ adapter = "facebook" /\ op = "processActivity" =>
          (FacebookVerifierReturnedTrue <=>
              /\ Has(req.headers, HubHeader)
              /\ req.headers[HubHeader] = HubSignature(options.facebook.app_secret, req.rawBody))
    /\ adapter = "hangouts" /\ op = "processActivity" =>
          (HangoutsTokenAccepted <=>
              Has(req.body, "token") /\ req.body.token = options.hangouts.token)

C24_Witness ==
    /\ adapter = "facebook" /\ op = "processActivity"
    /\ Has(req.headers, HubHeader)
    /\ req.headers[HubHeader].key = options.facebook.app_secret
    /\ req.headers[HubHeader].data # req.rawBody
    /\ ~FacebookVerifierReturnedTrue /\ res.status = 401 /\ calls = << >>

\* verifySignature returned true on the Twilio webhook in progress.
TwilioVerifierReturnedTrue == pc = "verified" \/ calls # << >>

\* The URL the request was sent to, as the request itself tells it.
ReconstructedUrl ==
    (IF Has(req.headers, "x-forwarded-proto")
     THEN req.headers["x-forwarded-proto"] ELSE req.protocol)
    \o "://" \o req.hostname \o req.originalUrl

\* C25: Twilio's verifySignature validates against the configured
\* validation_url whenever there is one, whatever the request says of scheme,
\* host and forwarding; without one it validates against scheme://host + path
\* as reconstructed from the request, for a request with a headers property
\* and for one without.
C25_ValidationUrl ==
    adapter = "twilio" /\ op = "processActivity" =>
        (TwilioVerifierReturnedTrue <=>
            /\ Has(req.headers, SigHeader)
            /\ req.headers[SigHeader] =
                  TwilioSignature(options.twilio.auth_token,
                                  IF Has(options.twilio, "validation_url")
                                  THEN options.twilio.validation_url
                                  ELSE ReconstructedUrl,
                                  req.body))

\* The activity an adapter makes of a request, and whether the adapter writes
\* the response of that request from turn state once the logic has returned.
ActivityOf(t) ==
    IF t.adapter = "twilio" THEN TwilioActivity(t.req.body) ELSE HangoutsActivity(t.req.body)

AnsweredFromTurnState(t) ==
    /\ t.pc = "resolved" /\ t.calls # << >>
    /\ t.adapter = "twilio" \/ t.req.body.type = "CARD_CLICKED"

\* What one invocation shows of itself follows from its own request and its
\* own turn state.
OwnRequestOnly(t) ==
    /\ t.calls # << >> => t.calls = << ActivityOf(t) >>
    /\ AnsweredFromTurnState(t) =>
          /\ t.res.status = TurnStatus(t.turnState)
          /\ t.res.body = IF TruthyStr(t.turnState, "httpBody")
                          THEN t.turnState.httpBody ELSE NoBody
    /\ t.pc = "resolved" /\ t.calls # << >> /\ ~AnsweredFromTurnState(t) =>
          t.res = ResEnd(ResStatus(FreshRes, 200))
    /\ t.pc = "resolved" /\ t.calls = << >> =>
          /\ t.res.status = IF t.adapter = "twilio" THEN 400 ELSE 401
          /\ t.turnState = << >>

\* C26: with webhooks of one adapter in flight together and interleaved at
\* their awaits in any order, the Activity, the HTTP status and the HTTP body
\* of each follow from its own request and its own turn state, a step of one
\* invocation leaves the other's locals alone, and no step writes the
\* adapter's options or its api handle.
C26_InvocationsIsolated ==
    /\ [](\A s \in Invocations : OwnRequestOnly(turns[s]))
    /\ [][/\ options' = options /\ api' = api
          /\ \A s \in Invocations :
                turns'[s].pc # turns[s].pc =>
                    \A o \in Invocations \ {s} : turns'[o] = turns[o]]_vars

C26_Witness ==
    /\ turns["first"].adapter = "twilio" /\ turns["second"].adapter = "twilio"
    /\ turns["first"].req.body.MessageSid = "SM1"
    /\ turns["second"].req.body.MessageSid = "SM2"
    /\ turns["second"].pc = "callback"
    /\ turns["second"].turnState = [httpStatus |-> 200]
    /\ turns["first"].pc = "resolved"
    /\ turns["first"].res.status = 500 /\ turns["first"].res.body = "reply-body"

\* A step that starts sendActivities, and one that resumes it after a
\* transport request has settled.
SendStarts == opsDone' # opsDone /\ op' = "sendActivities"
SendResumes ==
    /\ op = "sendActivities" /\ pc = "awaitApi" /\ opsDone' = opsDone
    /\ a' # a \/ pc' # pc

\* No Message activity of the list lies strictly between the two indexes.
NoMessageBetween(acts, lo, hi) ==
    \A k \in (lo + 1)..(hi - 1) : acts[k].type # ActivityTypes.Message

Messages(acts) == { k \in DOMAIN acts : acts[k].type = ActivityTypes.Message }

\* What a step of sendActivities that went on from index lo must have done:
\* one request for the next Message activity, or the end of a list that has no
\* further Message activity.
SendsNextMessage(lo) ==
    /\ pc' = "awaitApi" =>
          /\ a' \in Messages(activities') /\ a' > lo
          /\ NoMessageBetween(activities', lo, a')
          /\ transport' = Append(transport, CreateCall(adapter', activities'[a']))
    /\ pc' = "resolved" =>
          /\ NoMessageBetween(activities', lo, Len(activities') + 1)
          /\ transport' = transport
          /\ adapter' = "twilio" => Len(responses') = Cardinality(Messages(activities'))

\* C27: sendActivities makes one transport request for each Message activity,
\* in array order, the next only once the one before has settled, and returns
\* the ids of the requests that succeeded, in that order; on Twilio the list
\* returned has one id for each Message activity.
C27_OneRequestPerMessage ==
    [][/\ SendStarts => SendsNextMessage(0) /\ responses' = << >>
       /\ SendResumes =>
             /\ SendsNextMessage(a)
             /\ responses' \in {responses, Append(responses, [id |-> Len(transport)])}]_vars

\* C30: whenever sendActivities of the Hangouts adapter comes to a Message
\* activity the client handle is set, so the message is handed to the
\* transport, however the assignment of the handle is interleaved with the
\* calls.
C30_ClientSetWhenUsed ==
    [][SendStarts /\ adapter' = "hangouts" /\ Messages(activities') # {} =>
          /\ api = "set"
          /\ Len(transport') = Len(transport) + 1]_vars

\* getAPI has been called on an adapter without access_token.
MultiTenant == op = "getAPI" /\ ~TruthyStr(options.facebook, "access_token")

IsEchoActivity(activity) ==
    /\ Has(activity.channelData, "message")
    /\ Has(activity.channelData.message, "is_echo")
    /\ activity.channelData.message.is_echo = TRUE

\* C28: without access_token, getAPI asks getAccessTokenForPage for the
\* activity's recipient id, or for its from id when the activity is an echo;
\* when the lookup gives no token getAPI fails with an error and makes no
\* client; with access_token the lookup is never called.
C28_PageTokenLookup ==
    /\ MultiTenant =>
          /\ lookup.asked =
                << IF IsEchoActivity(lookup.activity)
                   THEN lookup.activity.from.id ELSE lookup.activity.recipient.id >>
          /\ pc = "resolved" => lookup.made /\ lookup.client.token = lookup.token
          /\ pc # "awaitToken" /\ lookup.token \notin { PageToken(lookup.asked[1]) } =>
                /\ pc = "rejected" /\ error = "Missing credentials for page."
                /\ ~lookup.made
    /\ op = "getAPI" /\ ~MultiTenant =>
          /\ lookup.asked = << >>
          /\ pc = "resolved" /\ lookup.made
          /\ lookup.client.token = options.facebook.access_token

C28_Witness ==
    /\ MultiTenant /\ IsEchoActivity(lookup.activity) /\ pc = "resolved"
    /\ lookup.asked = << "page-1" >>
    /\ lookup.made /\ lookup.client.token = "token-of-page-1"
    /\ lookup.client.secret = AppSecret

\* C29: a processActivity that has settled without an error has completed the
\* HTTP response, by res.end or res.send, exactly once, on every adapter and
\* for every request, a rejected Hangouts token and a verified Facebook body
\* without entry among them.
C29_ResponseCompletedOnce ==
    op = "processActivity" /\ pc = "resolved" => res.ends = 1 /\ res.ended

====
